---- MODULE Spec2Model ----
(***************************************************************************)
(* MiniQTT: the MQTT v5 client's receive path (Connection::receive), the   *)
(* packet parsers it drives, the framing of sent packets and the client    *)
(* operations built on them.  Bytes are the integers 0..255; a byte slice  *)
(* is a sequence of bytes; cursor positions and buffer offsets are         *)
(* 0-based as in the source, sequences are 1-based.                        *)
(***************************************************************************)
EXTENDS Integers, Sequences, FiniteSets, TLC

(***************************************************************************)
(* Parse results (protocol/mod.rs): Ok((len, value)), NotEnoughData,       *)
(* Error(e).                                                               *)
(***************************************************************************)
Ok(n, v) == [k |-> "ok", n |-> n, v |-> v]

NotEnoughData == [k |-> "ned"]

Error(e) == [k |-> "err", e |-> e]

ProtocolError == [name |-> "ProtocolError"]

InvalidPacketType(expected, actual) ==
    [name |-> "InvalidPacketType", expected |-> expected, actual |-> actual]

InvalidType(expected, actual) ==
    [name |-> "InvalidType", expected |-> expected, actual |-> actual]

\* ParseError::map with a closure that replaces the error by ProtocolError
MapErrProtocol(r) == IF r.k = "err" THEN Error(ProtocolError) ELSE r

(***************************************************************************)
(* Cursor (utils.rs): rem() is the slice from the position to the end.     *)
(***************************************************************************)
Rem(buf, position) == SubSeq(buf, position + 1, Len(buf))

\* Cursor::read_u8 on the remaining slice: (1, byte) or NotEnoughData
ReadU8(rem) == IF Len(rem) < 1 THEN NotEnoughData ELSE Ok(1, rem[1])

\* Cursor::read_u16_be: two read_u8, big endian
ReadU16Be(rem) ==
    IF Len(rem) < 1 THEN NotEnoughData
    ELSE IF Len(rem) < 2 THEN NotEnoughData
    ELSE Ok(2, rem[1] * 256 + rem[2])

\* read_slice without the bounds check: it hands out what is there
ReadSliceShort(rem, amount) ==
    IF Len(rem) < amount THEN Ok(Len(rem), rem)
    ELSE Ok(amount, SubSeq(rem, 1, amount))

\* Cursor::read_slice(amount)
ReadSlice(rem, amount) ==
    IF Len(rem) < amount THEN NotEnoughData
    ELSE Ok(amount, SubSeq(rem, 1, amount))

\* Option::None
None == -1

\* Cursor::new
CursorNew(buf) == [buf |-> buf, position |-> 0, fail |-> [k |-> "none"], v |-> <<>>]

\* One `cursor.<read>()?` statement that binds its value to `name`: nothing
\* after a failed read runs (`?` returns and the cursor is dropped, so the
\* position after a failed read is never looked at), a read that succeeds
\* advances the position by the length it reports.
Do(c, Step(_), name) ==
    IF c.fail.k # "none" THEN c
    ELSE LET r == Step(c)
         IN  IF r.k # "ok" THEN [c EXCEPT !.fail = r]
             ELSE [c EXCEPT !.position = @ + r.n, !.v = (name :> r.v) @@ @]

\* Cursor::rem of a cursor
CursorRem(c) == Rem(c.buf, c.position)

(***************************************************************************)
(* VariableByteInteger (protocol/types.rs).  The value is the 4-byte       *)
(* encoded array, unused bytes zero.                                       *)
(***************************************************************************)
RECURSIVE VbiParseLoop(_, _, _)
VbiParseLoop(data, i, result) ==
    \* i is the 0-based loop index of `for (i, result) in ...enumerate()`
    IF i = 4 THEN Ok(4, result)
    ELSE IF Len(data) < i + 1 THEN NotEnoughData
    ELSE LET b == data[i + 1]
             r == [result EXCEPT ![i + 1] = b]
         IN  IF b < 128 THEN Ok(i + 1, r) ELSE VbiParseLoop(data, i + 1, r)

\* a parse without the check of the fourth byte
VbiParseNoCheck(data) == VbiParseLoop(data, 0, <<0, 0, 0, 0>>)

VbiParse(data) ==
    LET r == VbiParseLoop(data, 0, <<0, 0, 0, 0>>)
    IN  IF r.k = "ok" /\ r.v[4] > 127
        THEN Error([name |-> "VariableByteIntegerInvalid"])
        ELSE r

\* VariableByteInteger::as_u32
VbiAsU32(v) ==
    (v[1] % 128) + (v[2] % 128) * 128 + (v[3] % 128) * 16384
        + (v[4] % 128) * 2097152

RECURSIVE VbiEncodeLoop(_, _, _)
VbiEncodeLoop(num, i, result) ==
    IF i = 4 THEN result
    ELSE LET rest == num \div 128
             byte == IF rest > 0 THEN (num % 128) + 128 ELSE num % 128
         IN  VbiEncodeLoop(rest, i + 1, [result EXCEPT ![i + 1] = byte])

\* an encode without the range check
VbiEncodeNoLimit(num) == VbiEncodeLoop(num, 0, <<0, 0, 0, 0>>)

\* VariableByteInteger::encode; "overflow" stands for Err(VariableByteIntegerOverflow)
VbiEncode(num) ==
    IF num > 268435455 THEN "overflow" ELSE VbiEncodeLoop(num, 0, <<0, 0, 0, 0>>)

\* VariableByteInteger::size: position of the first zero in bytes 1.., plus one
VbiSize(v) ==
    IF v[2] = 0 THEN 1 ELSE IF v[3] = 0 THEN 2 ELSE IF v[4] = 0 THEN 3 ELSE 4

\* VariableByteInteger::as_slice
VbiAsSlice(v) == SubSeq(v, 1, VbiSize(v))

(***************************************************************************)
(* FixedHeader (protocol/types.rs)                                         *)
(***************************************************************************)
FixedHeaderTy(h) == h.start \div 16

FixedHeaderFlags(h) == h.start % 16

FixedHeaderParse(data) ==
    LET s == ReadU8(data)
    IN  IF s.k # "ok" THEN s
        ELSE LET l == MapErrProtocol(VbiParse(Rem(data, 1)))
             IN  IF l.k # "ok" THEN l
                 ELSE Ok(1 + l.n, [start |-> s.v, length |-> l.v])

\* FixedHeader::new(packet, flags, size): size.try_into().unwrap() panics on overflow
FixedHeaderNew(packet, flags, size) ==
    [start |-> ((packet * 16) % 256) + (flags % 16), length |-> VbiEncode(size)]

\* FixedHeader::write_to: the start byte, then the encoded length
FixedHeaderBytes(h) == <<h.start>> \o VbiAsSlice(h.length)

\* read_fixed_header without the comparison against T::TYPE
ReadFixedHeaderAnyType(data, TYPE) == FixedHeaderParse(data)

\* CursorExt::read_fixed_header::<T> (protocol/utils.rs)
ReadFixedHeader(data, TYPE) ==
    LET h == FixedHeaderParse(data)
    IN  IF h.k # "ok" THEN h
        ELSE IF FixedHeaderTy(h.v) # TYPE
             THEN Error(InvalidPacketType(TYPE, FixedHeaderTy(h.v)))
             ELSE h

(***************************************************************************)
(* BinaryData and EncodedStr (protocol/types.rs)                           *)
(***************************************************************************)
\* a parse that checks the length prefix and then takes the whole rest
BinaryDataParseToEnd(data) ==
    LET l == ReadU16Be(data)
    IN  IF l.k # "ok" THEN l
        ELSE LET s == ReadSlice(Rem(data, 2), l.v)
             IN  IF s.k # "ok" THEN s ELSE Ok(Len(data), Rem(data, 2))

BinaryDataParse(data) ==
    LET l == ReadU16Be(data)
    IN  IF l.k # "ok" THEN l
        ELSE LET s == ReadSlice(Rem(data, 2), l.v)
             IN  IF s.k # "ok" THEN s ELSE Ok(2 + s.n, s.v)

\* core::str::from_utf8 accepts exactly the well-formed UTF-8 byte sequences
RECURSIVE IsUtf8(_)
IsUtf8(bytes) ==
    LET n == Len(bytes)
        Cont(i) == i <= n /\ bytes[i] >= 128 /\ bytes[i] <= 191
        In(i, lo, hi) == i <= n /\ bytes[i] >= lo /\ bytes[i] <= hi
        Rest(k) == IsUtf8(SubSeq(bytes, k + 1, n))
    IN  IF n = 0 THEN TRUE
        ELSE LET b == bytes[1]
             IN  IF b < 128 THEN Rest(1)
                 ELSE IF b >= 194 /\ b <= 223 THEN Cont(2) /\ Rest(2)
                 ELSE IF b = 224 THEN In(2, 160, 191) /\ Cont(3) /\ Rest(3)
                 ELSE IF b = 237 THEN In(2, 128, 159) /\ Cont(3) /\ Rest(3)
                 ELSE IF b >= 225 /\ b <= 239 THEN Cont(2) /\ Cont(3) /\ Rest(3)
                 ELSE IF b = 240 THEN In(2, 144, 191) /\ Cont(3) /\ Cont(4) /\ Rest(4)
                 ELSE IF b >= 241 /\ b <= 243 THEN Cont(2) /\ Cont(3) /\ Cont(4) /\ Rest(4)
                 ELSE IF b = 244 THEN In(2, 128, 143) /\ Cont(3) /\ Cont(4) /\ Rest(4)
                 ELSE FALSE

EncodedStrParse(data) ==
    LET b == BinaryDataParse(data)
    IN  IF b.k # "ok" THEN b
        ELSE IF ~IsUtf8(b.v) THEN Error(ProtocolError)
        ELSE Ok(b.n, b.v)

(***************************************************************************)
(* QoS (protocol/qos.rs)                                                   *)
(***************************************************************************)
\* a conversion that takes 3 for the highest level
QoSTryFromLenient(value) ==
    CASE value = 0 -> [k |-> "ok", v |-> "AtMostOnce"]
      [] value = 1 -> [k |-> "ok", v |-> "AtLeastOnce"]
      [] value = 2 -> [k |-> "ok", v |-> "ExactlyOnce"]
      [] value = 3 -> [k |-> "ok", v |-> "ExactlyOnce"]
      [] OTHER -> [k |-> "err", v |-> value]

QoSTryFrom(value) ==
    CASE value = 0 -> [k |-> "ok", v |-> "AtMostOnce"]
      [] value = 1 -> [k |-> "ok", v |-> "AtLeastOnce"]
      [] value = 2 -> [k |-> "ok", v |-> "ExactlyOnce"]
      [] OTHER -> [k |-> "err", v |-> value]

\* `qos as u8`
QoSAsU8(q) ==
    CASE q = "AtMostOnce" -> 0 [] q = "AtLeastOnce" -> 1 [] q = "ExactlyOnce" -> 2

(***************************************************************************)
(* Packet type codes (Packet::TYPE)                                        *)
(***************************************************************************)
ConnectTYPE == 1

ConnAckTYPE == 2

PublishTYPE == 3

SubscribeTYPE == 8

SubAckTYPE == 9

DisconnectTYPE == 14

(***************************************************************************)
(* ConnAckReason and ConnAck (protocol/v5/connect.rs)                      *)
(***************************************************************************)
\* the enum's variants with their discriminants
ConnAckReasonTable ==
    << <<0, "Success">>, <<128, "UnspecifiedError">>, <<129, "MalformedPacket">>,
       <<130, "ProtocolError">>, <<131, "ImplementationSpecificError">>,
       <<132, "UnsupportedProtocolVersion">>, <<133, "ClientIdentifierNotValid">>,
       <<134, "BadUserNameOrPassword">>, <<135, "NotAuthorized">>,
       <<136, "ServerUnavailable">>, <<137, "ServerBusy">>, <<138, "Banned">>,
       <<140, "BadAuthenticationMethod">>, <<144, "TopicNameInvalid">>,
       <<149, "PacketTooLarge">>, <<151, "QuotaExceeded">>,
       <<153, "PayloadFormatInvalid">>, <<154, "RetainNotSupported">>,
       <<155, "QoSNotSupported">>, <<156, "UseAnotherServer">>,
       <<157, "ServerMoved">>, <<159, "ConnectionRateExceeded">> >>

\* `reason as u8`
ConnAckReasonAsU8(reason) ==
    LET i == CHOOSE j \in 1..Len(ConnAckReasonTable) : ConnAckReasonTable[j][2] = reason
    IN  ConnAckReasonTable[i][1]

\* a match with one more arm: 0x8b read as Banned
ConnAckReasonMatchGap(b) ==
    IF b = 139 THEN "Banned"
    ELSE IF \E j \in 1..Len(ConnAckReasonTable) : ConnAckReasonTable[j][1] = b
    THEN ConnAckReasonTable[CHOOSE j \in 1..Len(ConnAckReasonTable) :
                                ConnAckReasonTable[j][1] = b][2]
    ELSE "none"

\* the match arms of ConnAckReason::parse
ConnAckReasonMatch(b) ==
    CASE b = 0 -> "Success"
      [] b = 128 -> "UnspecifiedError"
      [] b = 129 -> "MalformedPacket"
      [] b = 130 -> "ProtocolError"
      [] b = 131 -> "ImplementationSpecificError"
      [] b = 132 -> "UnsupportedProtocolVersion"
      [] b = 133 -> "ClientIdentifierNotValid"
      [] b = 134 -> "BadUserNameOrPassword"
      [] b = 135 -> "NotAuthorized"
      [] b = 136 -> "ServerUnavailable"
      [] b = 137 -> "ServerBusy"
      [] b = 138 -> "Banned"
      [] b = 140 -> "BadAuthenticationMethod"
      [] b = 144 -> "TopicNameInvalid"
      [] b = 149 -> "PacketTooLarge"
      [] b = 151 -> "QuotaExceeded"
      [] b = 153 -> "PayloadFormatInvalid"
      [] b = 154 -> "RetainNotSupported"
      [] b = 155 -> "QoSNotSupported"
      [] b = 156 -> "UseAnotherServer"
      [] b = 157 -> "ServerMoved"
      [] b = 159 -> "ConnectionRateExceeded"
      [] OTHER -> "none"

ConnAckReasonParse(data) ==
    LET b == ReadU8(data)
    IN  IF b.k # "ok" THEN b
        ELSE IF ConnAckReasonMatch(b.v) = "none" THEN Error(ProtocolError)
        ELSE Ok(1, ConnAckReasonMatch(b.v))

\* ConnAck::parse reading the reason code before the acknowledge flags
ConnAckParseReasonFirst(data) ==
    LET c1 == Do(CursorNew(data),
                 LAMBDA c : ReadFixedHeader(CursorRem(c), ConnAckTYPE), "fixed_header")
        c2 == Do(c1, LAMBDA c : ConnAckReasonParse(CursorRem(c)), "reason")
        c3 == Do(c2, LAMBDA c : ReadU8(CursorRem(c)), "ack_flags")
        c4 == Do(c3, LAMBDA c : MapErrProtocol(VbiParse(CursorRem(c))), "properties")
        c5 == Do(c4, LAMBDA c : ReadSlice(CursorRem(c), VbiAsU32(c.v.properties)), "skipped")
    IN  IF c5.fail.k # "none" THEN c5.fail
        ELSE Ok(c5.position,
                [ty |-> "ConnAck", ack_flags |-> c5.v.ack_flags, reason |-> c5.v.reason])

ConnAckParse(data) ==
    LET c1 == Do(CursorNew(data),
                 LAMBDA c : ReadFixedHeader(CursorRem(c), ConnAckTYPE), "fixed_header")
        c2 == Do(c1, LAMBDA c : ReadU8(CursorRem(c)), "ack_flags")
        c3 == Do(c2, LAMBDA c : ConnAckReasonParse(CursorRem(c)), "reason")
        c4 == Do(c3, LAMBDA c : MapErrProtocol(VbiParse(CursorRem(c))), "properties")
        c5 == Do(c4, LAMBDA c : ReadSlice(CursorRem(c), VbiAsU32(c.v.properties)), "skipped")
    IN  IF c5.fail.k # "none" THEN c5.fail
        ELSE Ok(c5.position,
                [ty |-> "ConnAck", ack_flags |-> c5.v.ack_flags, reason |-> c5.v.reason])

(***************************************************************************)
(* SubAck (protocol/v5/mod.rs)                                             *)
(***************************************************************************)
\* a SUBACK parser that skips a packet of any type by its remaining length
SubAckParseSkipsAny(data) ==
    LET h == FixedHeaderParse(data)
    IN  IF h.k # "ok" THEN h
        ELSE LET s == ReadSlice(Rem(data, h.n), VbiAsU32(h.v.length))
             IN  IF s.k # "ok" THEN s ELSE Ok(h.n + s.n, [ty |-> "SubAck"])

SubAckParse(data) ==
    LET h == FixedHeaderParse(data)
    IN  IF h.k # "ok" THEN h
        ELSE IF FixedHeaderTy(h.v) # SubAckTYPE
             THEN Error(InvalidType(SubAckTYPE, FixedHeaderTy(h.v)))
        ELSE LET s == ReadSlice(Rem(data, h.n), VbiAsU32(h.v.length))
             IN  IF s.k # "ok" THEN s ELSE Ok(h.n + s.n, [ty |-> "SubAck"])

(***************************************************************************)
(* Publish (protocol/v5/publish.rs)                                        *)
(***************************************************************************)
\* The usize subtraction `packet_length - (cursor.position() - start_length)`
\* underflows when the remaining length is smaller than the bytes already read:
\* it panics in a build with overflow checks and wraps around in one without
\* (read_slice of the wrapped amount then fails with NotEnoughData).  The
\* parser reports the case as "overflow"; the caller resolves the build.
PublishQoS(fixed_header) ==
    LET q == QoSTryFrom((FixedHeaderFlags(fixed_header) \div 2) % 4)
    IN  IF q.k # "ok" THEN Error(ProtocolError) ELSE Ok(0, q.v)

PublishIdentifier(c) ==
    IF c.v.qos = "AtMostOnce" THEN Ok(0, None) ELSE ReadU16Be(CursorRem(c))

\* a payload that takes whatever is left of the slice
PublishBodyToEnd(c) == ReadSlice(CursorRem(c), Len(CursorRem(c)))

PublishBody(c) ==
    LET packet_length == VbiAsU32(c.v.fixed_header.length)
        used == c.position - c.v.start_length
    IN  IF packet_length < used THEN [k |-> "overflow"]
        ELSE ReadSlice(CursorRem(c), packet_length - used)

PublishParse(data) ==
    LET c1 == Do(CursorNew(data),
                 LAMBDA c : ReadFixedHeader(CursorRem(c), PublishTYPE), "fixed_header")
        c2 == Do(c1, LAMBDA c : PublishQoS(c.v.fixed_header), "qos")
        c3 == Do(c2, LAMBDA c : Ok(0, c.position), "start_length")
        c4 == Do(c3, LAMBDA c : EncodedStrParse(CursorRem(c)), "topic")
        c5 == Do(c4, PublishIdentifier, "identifier")
        c6 == Do(c5, LAMBDA c : MapErrProtocol(VbiParse(CursorRem(c))), "properties")
        c7 == Do(c6, LAMBDA c : ReadSlice(CursorRem(c), VbiAsU32(c.v.properties)), "skipped")
        c8 == Do(c7, PublishBody, "body")
    IN  IF c8.fail.k # "none" THEN c8.fail
        ELSE Ok(c8.position,
                [ty |-> "Publish",
                 dup |-> (FixedHeaderFlags(c8.v.fixed_header) \div 8) % 2 = 1,
                 qos |-> c8.v.qos,
                 retain |-> FixedHeaderFlags(c8.v.fixed_header) % 2 = 1,
                 identifier |-> c8.v.identifier,
                 topic |-> c8.v.topic,
                 payload |-> c8.v.body])

\* T::parse for the packet type a receive call expects
Parse(T, data) ==
    CASE T = "ConnAck" -> ConnAckParse(data)
      [] T = "SubAck" -> SubAckParse(data)
      [] T = "Publish" -> PublishParse(data)

TypeOf(T) ==
    CASE T = "ConnAck" -> ConnAckTYPE
      [] T = "SubAck" -> SubAckTYPE
      [] T = "Publish" -> PublishTYPE

(***************************************************************************)
(* Encoders used by the packets the client sends (protocol/types.rs,       *)
(* traits.rs)                                                              *)
(***************************************************************************)
\* u16::to_be_bytes
U16Bytes(v) == <<(v \div 256) % 256, v % 256>>

\* BinaryData::write_to: `len as u16` big endian, then the bytes
BinaryDataBytes(bytes) == U16Bytes(Len(bytes) % 65536) \o bytes

\* BinaryData::size
BinaryDataSize(bytes) == 2 + Len(bytes)

\* EncodedStr::write_to delegates to BinaryData
EncodedStrBytes(str) == BinaryDataBytes(str)

\* EncodedStr::size
EncodedStrSize(str) == 2 + Len(str)

\* Option<T>: None is written as nothing and has size 0
OptStrBytes(o) == IF o = <<None>> THEN <<>> ELSE EncodedStrBytes(o)

OptStrSize(o) == IF o = <<None>> THEN 0 ELSE EncodedStrSize(o)

\* Option<u16>: None is written as nothing and has size 0
OptU16Bytes(o) == IF o = None THEN <<>> ELSE U16Bytes(o)

OptU16Size(o) == IF o = None THEN 0 ELSE 2

\* u32::to_be_bytes
U32Bytes(v) ==
    <<(v \div 16777216) % 256, (v \div 65536) % 256, (v \div 256) % 256, v % 256>>

(***************************************************************************)
(* Connect, Will and their properties (protocol/v5/connect.rs,             *)
(* protocol/v5/property.rs).  A property is a record with its enum, its    *)
(* variant and the variant's fields; an Option<Will> is a sequence of at   *)
(* most one will.                                                          *)
(***************************************************************************)
\* ConnectProperty::SessionExpiryInterval(v): identifier 0x11, u32 big endian
SessionExpiryIntervalBytes(v) ==
    <<17, (v \div 16777216) % 256, (v \div 65536) % 256, (v \div 256) % 256, v % 256>>

\* ConnectProperty::size for SessionExpiryInterval: 1 + u32 size
SessionExpiryIntervalSize == 5

\* ConnectProperty::size
ConnectPropertySize(p) ==
    CASE p.variant = "SessionExpiryInterval" -> SessionExpiryIntervalSize
      [] p.variant = "ReceiveMaximum" -> 1 + 2
      [] p.variant = "MaximumPacketSize" -> 1 + 4
      [] p.variant = "TopicAliasMaximum" -> 1 + 2
      [] p.variant = "RequestResponseInformation" -> 1 + 1
      [] p.variant = "RequestProblemInformation" -> 1 + 1
      [] p.variant = "UserProperty" -> 1 + (EncodedStrSize(p.key) + EncodedStrSize(p.value))
      [] p.variant = "AuthenticationMethod" -> 1 + EncodedStrSize(p.v)
      [] p.variant = "AuthenticationData" -> 1 + BinaryDataSize(p.v)

\* ConnectProperty::write_to
ConnectPropertyBytes(p) ==
    CASE p.variant = "SessionExpiryInterval" -> SessionExpiryIntervalBytes(p.v)
      [] p.variant = "ReceiveMaximum" -> <<33>> \o U16Bytes(p.v)
      [] p.variant = "MaximumPacketSize" -> <<39>> \o U32Bytes(p.v)
      [] p.variant = "TopicAliasMaximum" -> <<34>> \o U16Bytes(p.v)
      [] p.variant = "RequestResponseInformation" -> <<25, p.v>>
      [] p.variant = "RequestProblemInformation" -> <<23, IF p.v THEN 1 ELSE 0>>
      [] p.variant = "UserProperty" ->
             <<38>> \o EncodedStrBytes(p.key) \o EncodedStrBytes(p.value)
      [] p.variant = "AuthenticationMethod" -> <<21>> \o EncodedStrBytes(p.v)
      [] p.variant = "AuthenticationData" -> <<22>> \o BinaryDataBytes(p.v)

\* WillProperty::size; CorrelationData(v) takes `v.size()` of the slice
\* itself, the sum of the sizes of its bytes (traits.rs 108-110)
WillPropertySize(p) ==
    CASE p.variant = "WillDelay" -> 1 + 4
      [] p.variant = "PayloadFormatIndicator" -> 1 + 1
      [] p.variant = "MessageExpiryInterval" -> 1 + 4
      [] p.variant = "ContentType" -> 1 + EncodedStrSize(p.v)
      [] p.variant = "ResponseTopic" -> 1 + EncodedStrSize(p.v)
      [] p.variant = "CorrelationData" -> 1 + Len(p.v)
      [] p.variant = "UserProperty" -> 1 + (EncodedStrSize(p.key) + EncodedStrSize(p.value))

\* WillProperty::write_to
WillPropertyBytes(p) ==
    CASE p.variant = "WillDelay" -> <<24>> \o U32Bytes(p.v)
      [] p.variant = "PayloadFormatIndicator" -> <<1, p.v>>
      [] p.variant = "MessageExpiryInterval" -> <<2>> \o U32Bytes(p.v)
      [] p.variant = "ContentType" -> <<3>> \o EncodedStrBytes(p.v)
      [] p.variant = "ResponseTopic" -> <<8>> \o EncodedStrBytes(p.v)
      [] p.variant = "CorrelationData" -> <<9>> \o BinaryDataBytes(p.v)
      [] p.variant = "UserProperty" ->
             <<38>> \o EncodedStrBytes(p.key) \o EncodedStrBytes(p.value)

\* T::size and T::write_to of a property of either enum
PropertySize(p) ==
    IF p.enum = "WillProperty" THEN WillPropertySize(p) ELSE ConnectPropertySize(p)

PropertyBytes(p) ==
    IF p.enum = "WillProperty" THEN WillPropertyBytes(p) ELSE ConnectPropertyBytes(p)

\* Writable for &[T]: size is the sum of the sizes
RECURSIVE SliceSize(_)
SliceSize(props) ==
    IF props = <<>> THEN 0 ELSE PropertySize(Head(props)) + SliceSize(Tail(props))

\* Writable for &[T]: write_to writes each item in order
RECURSIVE ConcatProps(_)
ConcatProps(props) ==
    IF props = <<>> THEN <<>>
    ELSE PropertyBytes(Head(props)) \o ConcatProps(Tail(props))

\* Properties::size
PropertiesSize(props) ==
    LET s == SliceSize(props)
    IN  VbiSize(VbiEncode(s)) + s

\* Properties::write_to: the varint of the summed size(), then each property
PropertiesBytes(props) ==
    VbiAsSlice(VbiEncode(SliceSize(props))) \o ConcatProps(props)

\* Will::size
WillSize(will) ==
    PropertiesSize(will.properties) + EncodedStrSize(will.topic)
    + BinaryDataSize(will.payload)

\* Will::write_to
WillBytes(will) ==
    PropertiesBytes(will.properties) \o EncodedStrBytes(will.topic)
    \o BinaryDataBytes(will.payload)

\* Option<Will>
OptWillSize(o) == IF Len(o) = 0 THEN 0 ELSE WillSize(o[1])

OptWillBytes(o) == IF Len(o) = 0 THEN <<>> ELSE WillBytes(o[1])

\* a connect-flags byte with the two password and username bits exchanged
ConnectFlagsSwapped(packet) ==
    (IF packet.username # <<None>> THEN 64 ELSE 0)
    + (IF packet.password # <<None>> THEN 128 ELSE 0)
    + (IF packet.clean_start THEN 2 ELSE 0)

\* the connect-flags byte of Connect::write_to, lines 45-59
ConnectFlags(packet) ==
    (IF packet.username # <<None>> THEN 128 ELSE 0)
    + (IF packet.password # <<None>> THEN 64 ELSE 0)
    + (IF Len(packet.will) > 0 /\ packet.will[1].retain THEN 32 ELSE 0)
    + (IF Len(packet.will) > 0 THEN QoSAsU8(packet.will[1].qos) ELSE 0) * 8
    + (IF Len(packet.will) > 0 THEN 4 ELSE 0)
    + (IF packet.clean_start THEN 2 ELSE 0)

\* Connect::size
ConnectSize(packet) ==
    10 + PropertiesSize(packet.properties) + EncodedStrSize(packet.client_id)
       + OptWillSize(packet.will)
       + OptStrSize(packet.username) + OptStrSize(packet.password)

\* Connect::write_to
ConnectBytes(packet) ==
    EncodedStrBytes(<<77, 81, 84, 84>>) \o <<5>> \o <<ConnectFlags(packet)>>
    \o U16Bytes(packet.keep_alive) \o PropertiesBytes(packet.properties)
    \o EncodedStrBytes(packet.client_id) \o OptWillBytes(packet.will)
    \o OptStrBytes(packet.username) \o OptStrBytes(packet.password)

\* Connect::new in client/connect.rs: the builder's defaults
ConnectNew(client_id) ==
    [client_id |-> client_id, keep_alive |-> 0, clean_start |-> TRUE, will |-> <<>>,
     username |-> <<None>>, password |-> <<None>>, properties |-> <<>>]

\* the builder's methods (client/connect.rs 25-56)
keep_alive(packet, v) == [packet EXCEPT !.keep_alive = v]

resume_session(packet, resume) == [packet EXCEPT !.clean_start = ~resume]

with_username(packet, username) == [packet EXCEPT !.username = username]

with_password(packet, password) == [packet EXCEPT !.password = password]

with_properties(packet, properties) == [packet EXCEPT !.properties = properties]

(***************************************************************************)
(* Publish (protocol/v5/publish.rs) and Disconnect (protocol/v5/mod.rs)    *)
(***************************************************************************)
\* Packet::flags of Publish
\* flags with dup and retain in each other's bit
PublishFlagsMirrored(packet) ==
    (IF packet.retain THEN 8 ELSE 0) + QoSAsU8(packet.qos) * 2
    + (IF packet.dup THEN 1 ELSE 0)

PublishFlags(packet) ==
    (IF packet.dup THEN 8 ELSE 0) + QoSAsU8(packet.qos) * 2
    + (IF packet.retain THEN 1 ELSE 0)

\* Publish::size
PublishSize(packet) ==
    EncodedStrSize(packet.topic) + OptU16Size(packet.identifier)
    + VbiSize(VbiEncode(0)) + Len(packet.payload)

\* a PUBLISH body without the property length
PublishBytesNoProperties(packet) ==
    EncodedStrBytes(packet.topic) \o OptU16Bytes(packet.identifier) \o packet.payload

\* Publish::write_to
PublishBytes(packet) ==
    EncodedStrBytes(packet.topic) \o OptU16Bytes(packet.identifier)
    \o VbiAsSlice(VbiEncode(0)) \o packet.payload

\* Packet::flags, the default
DisconnectFlags == 0

\* Disconnect::size
DisconnectSize == 1

\* Disconnect::write_to: the reason code
DisconnectBytes == <<4>>

(***************************************************************************)
(* Subscribe (protocol/v5/mod.rs) with the single filter the client sends: *)
(* qos AtMostOnce, no_local false.                                         *)
(***************************************************************************)
SubscribeFlags == 2

SubscribeSize(identifier, topic) == 2 + 1 + (EncodedStrSize(topic) + 1)

\* a SUBSCRIBE that carries the identifier after the one allocated
SubscribeBytesNextIdentifier(identifier, topic) ==
    U16Bytes((identifier + 1) % 65536) \o VbiAsSlice(VbiEncode(0))
    \o EncodedStrBytes(topic) \o <<0>>

SubscribeBytes(identifier, topic) ==
    U16Bytes(identifier) \o VbiAsSlice(VbiEncode(0)) \o EncodedStrBytes(topic) \o <<0>>

(***************************************************************************)
(* Buffer (traits.rs)                                                      *)
(***************************************************************************)
Min(a, b) == IF a < b THEN a ELSE b

Max(a, b) == IF a > b THEN a ELSE b

Zeros(n) == [i \in 1..n |-> 0]

\* usize::clamp(min, max)
Clamp(v, lo, hi) == Max(lo, Min(v, hi))

\* a growth that doubles without the clamp
VecTryResizeDoubles(buf) == buf \o Zeros(Len(buf) * 2)

\* Vec<u8>::try_resize: resize(len + (len * 2).clamp(32, 8192), 0)
VecTryResize(buf) == buf \o Zeros(Clamp(Len(buf) * 2, 32, 8192))

\* a compaction that forgets to move the bytes
CopyWithinNoMove(buf, position, size) == buf

\* slice::copy_within(position..size, 0)
CopyWithin(buf, position, size) ==
    [i \in 1..Len(buf) |->
        IF i <= size - position THEN buf[position + i] ELSE buf[i]]

(***************************************************************************)
(* Scenarios: what the server delivers before it closes, and the receive   *)
(* buffer the Connection is constructed with.                              *)
(***************************************************************************)
\* PUBLISH, QoS 0, topic "t", payload "hi"
PubA == <<48, 6, 0, 1, 116, 0, 104, 105>>

\* PUBLISH, QoS 1, retain, identifier 7, topic "u", payload "h"
PubB == <<51, 7, 0, 1, 117, 0, 7, 0, 104>>

\* PUBLISH, QoS 0, topic "topic", 10 payload bytes: 20 bytes in all
PubLong == <<48, 18, 0, 5, 116, 111, 112, 105, 99, 0,
             48, 49, 50, 51, 52, 53, 54, 55, 56, 57>>

\* PUBLISH with QoS bits 0b11
PubQoS3 == <<54, 6, 0, 1, 116, 0, 104, 105>>

\* PUBLISH whose remaining length does not fit its 4 bytes of varint
PubBadLength == <<48, 255, 255, 255, 255, 0>>

\* CONNACK: Success, no session, empty property block
ConnAckOk == <<32, 3, 0, 0, 0>>

\* CONNACK: NotAuthorized
ConnAckNotAuthorized == <<32, 3, 0, 135, 0>>

\* CONNACK: Success, session present, 6 bytes of properties
ConnAckSession == <<32, 9, 1, 0, 6, 34, 0, 10, 33, 0, 20>>

\* CONNACK with an undefined reason code
ConnAckBadReason == <<32, 3, 0, 1, 0>>

\* CONNACK with a non-zero flags nibble
ConnAckFlags == <<33, 3, 0, 0, 0>>

\* CONNACK whose remaining length (5) exceeds what its fields occupy (3)
ConnAckShort == <<32, 5, 0, 0, 0, 1, 2>>

\* PUBLISH whose remaining length (2) is smaller than its topic and properties (4)
PubUnderflow == <<48, 2, 0, 1, 116, 0>>

\* CONNACK with the given reason byte, no session, empty property block
ConnAckWith(reason) == <<32, 3, 0, reason, 0>>

\* SUBACK for identifier 20000 with one reason code
SubAckOk == <<144, 4, 78, 32, 0, 0>>

\* SUBACK with a non-zero flags nibble
SubAckFlags == <<145, 4, 78, 32, 0, 0>>

\* SUBACK for identifier 1
SubAckOther == <<144, 4, 0, 1, 0, 0>>

Packets ==
    {PubA, PubB, PubLong, PubQoS3, PubBadLength, PubUnderflow, ConnAckOk,
     ConnAckNotAuthorized, ConnAckSession, ConnAckBadReason, ConnAckFlags, ConnAckShort,
     ConnAckWith(128), ConnAckWith(159), SubAckOk, SubAckFlags}

Prefixes(s) == {SubSeq(s, 1, n) : n \in 0..Len(s)}

\* two or three packets the server sends back to back
Pairs ==
    {PubA \o PubB, ConnAckOk \o PubA, SubAckOk \o PubA, ConnAckOk \o SubAckOk \o PubB}

\* streams the peer cuts short: it closes in the middle of a packet
Truncated ==
    Prefixes(PubA) \cup {SubSeq(PubA \o PubB, 1, 11), SubSeq(ConnAckSession, 1, 4),
                         SubSeq(SubAckOk, 1, 3)}

\* everything the server sends before it closes
Streams == Packets \cup Pairs \cup Truncated

\* fixed buffers ([u8; N], &mut [u8]) and growable ones (Vec<u8>)
Buffers ==
    { [len |-> 8, growable |-> FALSE], [len |-> 24, growable |-> FALSE],
      [len |-> 0, growable |-> TRUE] }

\* the topic subscribe and send are called with: "t"
Topics == {<<116>>}

\* the payload send is called with: "h"
Payloads == {<<104>>}

\* the connect request the builder is awaited with: keep_alive(0x42),
\* with_username("a"), with_password("b")
ConnectRequests ==
    { [ConnectNew(<<109>>) EXCEPT !.keep_alive = 66, !.username = <<97>>,
                                  !.password = <<98>>] }

\* "miniqtt", "aaa", "bbb"
Miniqtt == <<109, 105, 110, 105, 113, 116, 116>>

Aaa == <<97, 97, 97>>

Bbb == <<98, 98, 98>>

\* a ConnectProperty and a WillProperty value
CP(variant, v) == [enum |-> "ConnectProperty", variant |-> variant, v |-> v]

WP(variant, v) == [enum |-> "WillProperty", variant |-> variant, v |-> v]

UserProperty(enum, key, value) ==
    [enum |-> enum, variant |-> "UserProperty", key |-> key, value |-> value]

\* a will on topic "w" with payload "x"
WillOf(retain, qos, properties) ==
    [retain |-> retain, qos |-> qos, properties |-> properties,
     topic |-> <<119>>, payload |-> <<120>>]

\* connect requests made with the builder: the one of the tests
\* (src/tests/client.rs), the defaults, and each builder method on its own
BuilderRequests ==
    << with_password(with_username(keep_alive(ConnectNew(Miniqtt), 66), Aaa), Bbb),
       ConnectNew(<<109>>),
       resume_session(ConnectNew(<<109>>), TRUE),
       resume_session(ConnectNew(<<109>>), FALSE),
       with_username(ConnectNew(<<109>>), Aaa),
       with_password(ConnectNew(<<109>>), Bbb),
       keep_alive(ConnectNew(<<>>), 4660),
       with_properties(ConnectNew(<<109>>), <<CP("SessionExpiryInterval", 300)>>),
       with_properties(with_username(resume_session(ConnectNew(Miniqtt), TRUE), <<>>),
                       <<CP("ReceiveMaximum", 10), CP("RequestProblemInformation", FALSE)>>) >>

\* connect packets with each ConnectProperty variant
PropertyRequests ==
    [i \in 1..9 |->
        with_properties(ConnectNew(<<109>>),
            << << CP("SessionExpiryInterval", 16909060),
                  CP("ReceiveMaximum", 258),
                  CP("MaximumPacketSize", 65536),
                  CP("TopicAliasMaximum", 3),
                  CP("RequestResponseInformation", 1),
                  CP("RequestProblemInformation", TRUE),
                  UserProperty("ConnectProperty", <<107>>, <<118, 118>>),
                  CP("AuthenticationMethod", <<109>>),
                  CP("AuthenticationData", <<1, 2, 3>>) >>[i] >>)]

\* connect packets with a will: without properties, with each WillProperty
\* variant, and with the qos and retain settings
WillRequests ==
    [i \in 1..10 |->
        [ConnectNew(<<109>>) EXCEPT !.will =
            << << WillOf(FALSE, "AtMostOnce", <<>>),
                  WillOf(TRUE, "AtLeastOnce", <<>>),
                  WillOf(FALSE, "ExactlyOnce", <<>>),
                  WillOf(FALSE, "AtMostOnce", <<WP("WillDelay", 5)>>),
                  WillOf(FALSE, "AtMostOnce", <<WP("PayloadFormatIndicator", 1)>>),
                  WillOf(FALSE, "AtMostOnce", <<WP("MessageExpiryInterval", 60)>>),
                  WillOf(FALSE, "AtMostOnce", <<WP("ContentType", <<99>>)>>),
                  WillOf(FALSE, "AtMostOnce", <<WP("ResponseTopic", <<114>>)>>),
                  WillOf(FALSE, "AtMostOnce", <<WP("CorrelationData", <<1, 2, 3>>)>>),
                  WillOf(FALSE, "AtMostOnce",
                         <<UserProperty("WillProperty", <<107>>, <<118>>)>>) >>[i] >>]]

\* publish packets: the one Client::send builds, and others the type allows
PublishPackets ==
    << [dup |-> FALSE, qos |-> "AtMostOnce", retain |-> FALSE, identifier |-> None,
        topic |-> <<116>>, payload |-> <<104, 105>>],
       [dup |-> FALSE, qos |-> "AtLeastOnce", retain |-> TRUE, identifier |-> 7,
        topic |-> <<116>>, payload |-> <<>>],
       [dup |-> TRUE, qos |-> "ExactlyOnce", retain |-> FALSE, identifier |-> 258,
        topic |-> <<>>, payload |-> <<104>>] >>

\* every packet Connection::send is called with
WirePackets ==
    [i \in 1..Len(BuilderRequests) |-> [T |-> "Connect", packet |-> BuilderRequests[i]]]
    \o [i \in 1..Len(PropertyRequests) |-> [T |-> "Connect", packet |-> PropertyRequests[i]]]
    \o [i \in 1..Len(WillRequests) |-> [T |-> "Connect", packet |-> WillRequests[i]]]
    \o [i \in 1..Len(PublishPackets) |-> [T |-> "Publish", packet |-> PublishPackets[i]]]
    \o << [T |-> "Subscribe", packet |-> [identifier |-> 20000, topic |-> <<116>>]],
          [T |-> "Subscribe", packet |-> [identifier |-> 65535, topic |-> <<97, 47, 98>>]],
          [T |-> "Disconnect", packet |-> [reason |-> 4]] >>

\* bounds of the exploration: client operations per run, and packets per run
\* of the send path on its own
MaxOps == 2

MaxSends == 1

(***************************************************************************)
(* State                                                                   *)
(***************************************************************************)
VARIABLES
    rx_buffer,   \* Connection::rx_buffer, the whole slice
    growable,    \* whether the buffer's try_resize grows it (Vec<u8>)
    size,        \* Connection::size
    position,    \* Connection::position, None or an offset
    reader,      \* transport: bytes the server has sent and the client not read
    writer,      \* transport: bytes the client has written
    identifier,  \* Client::identifier
    pc,          \* where the running operation is suspended
    op,          \* the running client operation
    result,      \* what the last finished operation returned
    returned,    \* what Connection::receive has returned so far, in order
    cancelled,   \* operations dropped while pending, with whether they had read
    stream,      \* everything the server sends in this run
    ops,         \* number of client operations started so far
    torn,        \* a fixed header is on the wire whose body the transport refused
    calc         \* a value under computation: its input and the results so far

vars == <<rx_buffer, growable, size, position, reader, writer, identifier, pc, op,
          result, returned, cancelled, stream, ops, torn, calc>>

conn == <<rx_buffer, size, position>>

NoOp == [name |-> "none", T |-> "none", header |-> <<>>, body |-> <<>>,
         reads |-> 0, wstart |-> 0, full |-> FALSE]

NoResult == [op |-> "none", k |-> "none", v |-> "none", eof |-> FALSE]

\* nothing is under computation
NoCalc ==
    [n |-> 0, data |-> <<>>, encoded |-> <<>>, parsed |-> <<>>, decoded |-> <<>>,
     packet |-> <<>>, T |-> "none", more |-> <<>>, extended |-> <<>>]

\* Connection::new and Client::new
Init ==
    /\ \E b \in Buffers : rx_buffer = Zeros(b.len) /\ growable = b.growable
    /\ size = 0
    /\ position = None
    /\ \E s \in Streams : reader = s /\ stream = s
    /\ writer = <<>>
    /\ identifier = 20000
    /\ pc = "idle"
    /\ op = NoOp
    /\ result = NoResult
    /\ returned = <<>>
    /\ cancelled = {}
    /\ ops = 0
    /\ torn = FALSE
    /\ calc = NoCalc

(***************************************************************************)
(* Finishing an operation: the future resolves with a value or an error.   *)
(***************************************************************************)
Return(k, v) ==
    /\ result' = [op |-> op.name, k |-> k, v |-> v, eof |-> FALSE]
    /\ pc' = "idle"
    /\ op' = NoOp

\* ConnectResponse::successful: the reason code is Success
successful(response) == response.ack.reason = "Success"

\* ConnectResponse::session_present: bit 0 of the acknowledge flags
session_present(response) == response.ack.ack_flags % 2 = 1

\* what the client operation makes of the packet Connection::receive returned
OpValue(name, packet) ==
    IF name = "connect" THEN [ack |-> packet] ELSE "unit"

(***************************************************************************)
(* Client operations (client/mod.rs).  Each starts when the client is idle *)
(* and runs up to its first suspension point.                              *)
(***************************************************************************)
StartOp(name, T, header, body) ==
    /\ pc = "idle"
    /\ ops < MaxOps
    /\ ops' = ops + 1
    /\ op' = [name |-> name, T |-> T, header |-> header, body |-> body,
              reads |-> 0, wstart |-> Len(writer), full |-> FALSE]
    /\ result' = NoResult

\* Client::connect(client_id) with the builder's settings, awaited
Connect(packet) ==
    /\ StartOp("connect", "ConnAck",
               FixedHeaderBytes(FixedHeaderNew(ConnectTYPE, 0, ConnectSize(packet))),
               ConnectBytes(packet))
    /\ pc' = "send_header"
    /\ UNCHANGED <<conn, growable, reader, writer, identifier, returned, cancelled, stream>>
    /\ UNCHANGED <<calc, torn>>

\* Client::subscribe(topic); next_identifier is fetch_add(1) on an AtomicU16
Subscribe(topic) ==
    /\ StartOp("subscribe", "SubAck",
               FixedHeaderBytes(FixedHeaderNew(SubscribeTYPE, SubscribeFlags,
                                               SubscribeSize(identifier, topic))),
               SubscribeBytes(identifier, topic))
    /\ identifier' = (identifier + 1) % 65536
    /\ pc' = "send_header"
    /\ UNCHANGED <<conn, growable, reader, writer, returned, cancelled, stream>>
    /\ UNCHANGED <<calc, torn>>

\* Client::send(topic, payload): a QoS 0 PUBLISH without identifier
Send(topic, payload) ==
    /\ LET packet == [dup |-> FALSE, qos |-> "AtMostOnce", retain |-> FALSE,
                      identifier |-> None, topic |-> topic, payload |-> payload]
       IN  StartOp("send", "none",
                   FixedHeaderBytes(FixedHeaderNew(PublishTYPE, PublishFlags(packet),
                                                   PublishSize(packet))),
                   PublishBytes(packet))
    /\ pc' = "send_header"
    /\ UNCHANGED <<conn, growable, reader, writer, identifier, returned, cancelled, stream>>
    /\ UNCHANGED <<calc, torn>>

\* Client::disconnect(): sends Disconnect {} and returns; the client keeps
\* its connection and no state records the disconnect
Disconnect ==
    /\ StartOp("disconnect", "none",
               FixedHeaderBytes(FixedHeaderNew(DisconnectTYPE, DisconnectFlags,
                                               DisconnectSize)),
               DisconnectBytes)
    /\ pc' = "send_header"
    /\ UNCHANGED <<conn, growable, reader, writer, identifier, returned, cancelled, stream>>
    /\ UNCHANGED <<calc, torn>>

\* Client::receive()
Receive ==
    /\ StartOp("receive", "Publish", <<>>, <<>>)
    /\ pc' = "entry"
    /\ UNCHANGED <<conn, growable, reader, writer, identifier, returned, cancelled, stream>>
    /\ UNCHANGED <<calc, torn>>

(***************************************************************************)
(* Connection::send: the fixed header, then the body.                      *)
(***************************************************************************)
WriteHeader ==
    /\ pc = "send_header"
    /\ writer' = writer \o op.header
    /\ pc' = "send_body"
    /\ UNCHANGED <<conn, growable, reader, identifier, op, result, returned,
                   cancelled, stream, ops>>
    /\ UNCHANGED <<calc, torn>>

\* a send that goes on after the fixed header without writing the body
WriteBodyNothing ==
    /\ pc = "send_body"
    /\ IF op.T = "none"
       THEN Return("ok", "unit")
       ELSE pc' = "entry" /\ UNCHANGED <<op, result>>
    /\ UNCHANGED <<conn, growable, reader, writer, identifier, returned, cancelled, stream, ops>>
    /\ UNCHANGED <<calc, torn>>

\* the body is written; Client::send and Client::disconnect return here, the
\* other operations go on to receive their response
WriteBody ==
    /\ pc = "send_body"
    /\ writer' = writer \o op.body
    /\ IF op.T = "none"
       THEN Return("ok", "unit")
       ELSE pc' = "entry" /\ UNCHANGED <<op, result>>
    /\ UNCHANGED <<conn, growable, reader, identifier, returned, cancelled, stream, ops>>
    /\ UNCHANGED <<calc, torn>>

\* the transport's write fails: `?` returns Error::Connection
WriteError ==
    /\ pc \in {"send_header", "send_body"}
    /\ Return("err", "Connection")
    /\ torn' = (torn \/ pc = "send_body")
    /\ UNCHANGED <<conn, growable, reader, writer, identifier, returned, cancelled, stream, ops>>
    /\ UNCHANGED calc

(***************************************************************************)
(* Connection::receive::<T>                                                *)
(***************************************************************************)
\* a receive that starts every call with an empty buffer
ReceiveEntryFresh ==
    /\ pc = "entry"
    /\ pc' = "loop"
    /\ size' = 0
    /\ position' = None
    /\ UNCHANGED <<rx_buffer, growable, reader, writer, identifier, op, result, returned,
                   cancelled, stream, ops>>
    /\ UNCHANGED <<calc, torn>>

\* an entry that compacts but reads the position without taking it
ReceiveEntryKeepsPosition ==
    /\ pc = "entry"
    /\ IF position = None
       THEN /\ pc' = "loop"
            /\ UNCHANGED <<rx_buffer, size>>
       ELSE /\ rx_buffer' = CopyWithin(rx_buffer, Min(position, size), size)
            /\ size' = size - Min(position, size)
            /\ pc' = "loop"
    /\ UNCHANGED <<position, growable, reader, writer, identifier, op, result, returned,
                   cancelled, stream, ops>>
    /\ UNCHANGED <<calc, torn>>

\* lines 212-227: `if let Some(position) = self.position.take()`
ReceiveEntry ==
    /\ pc = "entry"
    /\ IF position = None
       THEN /\ pc' = "loop"
            /\ UNCHANGED <<rx_buffer, size>>
       ELSE IF position > size
       THEN \* copy_within panics on a range whose start exceeds its end
            /\ pc' = "panicked"
            /\ UNCHANGED <<rx_buffer, size>>
       ELSE /\ rx_buffer' = CopyWithin(rx_buffer, position, size)
            /\ size' = size - position
            /\ pc' = "loop"
    /\ position' = None
    /\ UNCHANGED <<growable, reader, writer, identifier, op, result, returned,
                   cancelled, stream, ops>>
    /\ UNCHANGED <<calc, torn>>

\* the loop without the check for a full buffer
RemainingNeverEmpty(buf, filled) == FALSE

\* line 265: `remaining.is_empty()`
RemainingIsEmpty(buf, filled) == Len(buf) - filled = 0

\* a receive that compacts on exit, under the packet it returns
ParseOkCompacts(r) ==
    /\ position' = 0
    /\ returned' = Append(returned, [T |-> op.T, packet |-> r.v, n |-> r.n,
                                     reads |-> Min(op.reads, 1)])
    /\ Return("ok", OpValue(op.name, r.v))
    /\ rx_buffer' = CopyWithin(rx_buffer, r.n, size)
    /\ size' = size - r.n

\* lines 244-249: the parse succeeded
ParseOk(r) ==
    /\ position' = r.n
    /\ returned' = Append(returned, [T |-> op.T, packet |-> r.v, n |-> r.n,
                                     reads |-> Min(op.reads, 1)])
    /\ Return("ok", OpValue(op.name, r.v))
    /\ UNCHANGED <<rx_buffer, size>>

\* a receive that throws the buffered data away when the parse fails
ParseFailedResyncs ==
    /\ Return("err", "Protocol")
    /\ size' = 0
    /\ UNCHANGED <<rx_buffer, position, returned>>

\* lines 251-262
ParseFailed ==
    /\ Return("err", "Protocol")
    /\ UNCHANGED <<rx_buffer, size, position, returned>>

\* a loop that hands the parser's NotEnoughData to the caller
ParseNotEnoughDataSurfaces ==
    /\ Return("err", "NotEnoughData")
    /\ UNCHANGED <<rx_buffer, size, position, returned>>

\* a loop that reads also when a fixed buffer is full
ParseNotEnoughDataReadsAnyway ==
    /\ IF RemainingIsEmpty(rx_buffer, size) /\ growable
       THEN /\ rx_buffer' = VecTryResize(rx_buffer)
            /\ UNCHANGED <<pc, op, result>>
       ELSE /\ pc' = "read"
            /\ op' = [op EXCEPT !.full = (size >= Len(rx_buffer))]
            /\ UNCHANGED <<rx_buffer, result>>
    /\ UNCHANGED <<size, position, returned>>

\* a loop whose Vec buffer stops growing at 32 bytes
ParseNotEnoughDataCapped ==
    /\ IF RemainingIsEmpty(rx_buffer, size)
       THEN IF growable /\ Len(rx_buffer) < 32
            THEN /\ rx_buffer' = VecTryResize(rx_buffer)
                 /\ UNCHANGED <<pc, op, result>>
            ELSE /\ Return("err", "InsufficientBufferSize")
                 /\ UNCHANGED rx_buffer
       ELSE /\ pc' = "read"
            /\ op' = [op EXCEPT !.full = (size >= Len(rx_buffer))]
            /\ UNCHANGED <<rx_buffer, result>>
    /\ UNCHANGED <<size, position, returned>>

\* lines 250 and 265-286: NotEnoughData, up to the read
ParseNotEnoughData ==
    /\ IF RemainingIsEmpty(rx_buffer, size)
       THEN IF growable
            THEN \* try_resize succeeded: `continue`
                 /\ rx_buffer' = VecTryResize(rx_buffer)
                 /\ UNCHANGED <<pc, op, result>>
            ELSE /\ Return("err", "InsufficientBufferSize")
                 /\ UNCHANGED rx_buffer
       ELSE /\ pc' = "read"
            /\ op' = [op EXCEPT !.full = (size >= Len(rx_buffer))]
            /\ UNCHANGED <<rx_buffer, result>>
    /\ UNCHANGED <<size, position, returned>>

\* one iteration of the loop, lines 229-286
LoopStep ==
    /\ pc = "loop"
    /\ LET r == Parse(op.T, SubSeq(rx_buffer, 1, size))
       IN  CASE r.k = "ok" -> ParseOk(r)
             [] r.k = "err" -> ParseFailed
             [] r.k = "ned" -> ParseNotEnoughData
             [] r.k = "overflow" ->
                    \* the subtraction wrapped (NotEnoughData) or panicked
                    \/ ParseNotEnoughData
                    \/ /\ pc' = "panicked"
                       /\ UNCHANGED <<rx_buffer, size, position, returned, op, result>>
    /\ UNCHANGED <<growable, reader, writer, identifier, cancelled, stream, ops>>
    /\ UNCHANGED <<calc, torn>>

\* a read that stores what arrives at the start of the buffer
ReadBytesFromStart(buf, filled, bytes) ==
    [i \in 1..Len(buf) |-> IF i <= Len(bytes) THEN bytes[i] ELSE buf[i]]

\* embedded_io_async::Read::read into `remaining`: r bytes arrive
ReadBytes(buf, filled, bytes) ==
    [i \in 1..Len(buf) |->
        IF i > filled /\ i <= filled + Len(bytes) THEN bytes[i - filled] ELSE buf[i]]

\* lines 287 and 294-297: the read returned r > 0 bytes
ReadSome ==
    /\ pc = "read"
    /\ \E r \in 1..Min(Len(reader), Len(rx_buffer) - size) :
          /\ rx_buffer' = ReadBytes(rx_buffer, size, SubSeq(reader, 1, r))
          /\ reader' = SubSeq(reader, r + 1, Len(reader))
          /\ size' = size + r
    /\ op' = [op EXCEPT !.reads = @ + 1]
    /\ pc' = "loop"
    /\ UNCHANGED <<growable, position, writer, identifier, result, returned, cancelled,
                   stream, ops>>
    /\ UNCHANGED <<calc, torn>>

\* an abrupt close reported as a kind of its own
AbruptIsProtocol(data_is_empty) == IF data_is_empty THEN "Disconnected" ELSE "Protocol"

\* lines 288-293: `match data.is_empty()` only chooses the log line
ZeroReadError(data_is_empty) == "Disconnected"

\* lines 287-293: the read returned 0 (the peer closed, or `remaining` is empty)
ReadZero ==
    /\ pc = "read"
    /\ Min(Len(reader), Len(rx_buffer) - size) = 0
    /\ result' = [op |-> op.name, k |-> "err", v |-> ZeroReadError(size = 0),
                  eof |-> TRUE]
    /\ pc' = "idle"
    /\ op' = NoOp
    /\ UNCHANGED <<conn, growable, reader, writer, identifier, returned, cancelled, stream, ops>>
    /\ UNCHANGED <<calc, torn>>

\* a receive that reads again after the transport's read failed
ReadErrorRetries ==
    /\ pc = "read"
    /\ pc' = "loop"
    /\ UNCHANGED <<conn, growable, reader, writer, identifier, op, result, returned,
                   cancelled, stream, ops>>
    /\ UNCHANGED <<calc, torn>>

\* line 287: the read failed, `?` returns Error::Connection
ReadError ==
    /\ pc = "read"
    /\ Return("err", "Connection")
    /\ UNCHANGED <<conn, growable, reader, writer, identifier, returned, cancelled, stream, ops>>
    /\ UNCHANGED <<calc, torn>>

\* the caller drops the pending future while it is suspended in a transport
\* write or read
Cancel ==
    /\ pc \in {"send_header", "send_body", "read"}
    /\ result' = [op |-> op.name, k |-> "cancelled", v |-> "none", eof |-> FALSE]
    /\ cancelled' = cancelled \cup {<<op.name, op.reads > 0>>}
    /\ pc' = "idle"
    /\ op' = NoOp
    /\ UNCHANGED <<conn, growable, reader, writer, identifier, returned, stream, ops>>
    /\ UNCHANGED <<calc, torn>>

Next ==
    \/ \E packet \in ConnectRequests : Connect(packet)
    \/ \E topic \in Topics : Subscribe(topic)
    \/ Receive
    \/ WriteHeader
    \/ WriteBody
    \/ WriteError
    \/ ReceiveEntry
    \/ LoopStep
    \/ ReadSome
    \/ ReadZero
    \/ ReadError
    \/ Cancel

Spec == Init /\ [][Next]_vars

(***************************************************************************)
(* The whole client: connect, subscribe, send, disconnect and receive, in  *)
(* any order, against a server that answers a connect, a subscribe, both,  *)
(* a subscribe with another identifier, or publishes twice.                *)
(***************************************************************************)
ClientStreams ==
    {ConnAckOk, SubAckOk, SubAckOther, PubA \o PubB, ConnAckOk \o SubAckOk \o PubB}

ClientInit ==
    /\ \E b \in Buffers : rx_buffer = Zeros(b.len) /\ growable = b.growable
    /\ size = 0
    /\ position = None
    /\ \E s \in ClientStreams : reader = s /\ stream = s
    /\ writer = <<>>
    /\ identifier = 20000
    /\ pc = "idle"
    /\ op = NoOp
    /\ result = NoResult
    /\ returned = <<>>
    /\ cancelled = {}
    /\ ops = 0
    /\ torn = FALSE
    /\ calc = NoCalc

ClientNext ==
    \/ \E packet \in ConnectRequests : Connect(packet)
    \/ \E topic \in Topics : Subscribe(topic)
    \/ \E topic \in Topics : \E payload \in Payloads : Send(topic, payload)
    \/ Disconnect
    \/ Receive
    \/ WriteHeader
    \/ WriteBody
    \/ WriteError
    \/ ReceiveEntry
    \/ LoopStep
    \/ ReadSome
    \/ ReadZero
    \/ ReadError
    \/ Cancel

ClientSpec == ClientInit /\ [][ClientNext]_vars

(***************************************************************************)
(* The send path on its own: Connection::send::<T> (client/mod.rs 171-187) *)
(* called with each packet the protocol types can express, as every client *)
(* operation calls it first.                                               *)
(***************************************************************************)
\* T::TYPE, Packet::flags, Writable::size and Writable::write_to of a packet
PacketTYPE(p) ==
    CASE p.T = "Connect" -> ConnectTYPE
      [] p.T = "Publish" -> PublishTYPE
      [] p.T = "Subscribe" -> SubscribeTYPE
      [] p.T = "Disconnect" -> DisconnectTYPE

PacketFlags(p) ==
    CASE p.T = "Publish" -> PublishFlags(p.packet)
      [] p.T = "Subscribe" -> SubscribeFlags
      [] OTHER -> 0

PacketSize(p) ==
    CASE p.T = "Connect" -> ConnectSize(p.packet)
      [] p.T = "Publish" -> PublishSize(p.packet)
      [] p.T = "Subscribe" -> SubscribeSize(p.packet.identifier, p.packet.topic)
      [] p.T = "Disconnect" -> DisconnectSize

PacketBytes(p) ==
    CASE p.T = "Connect" -> ConnectBytes(p.packet)
      [] p.T = "Publish" -> PublishBytes(p.packet)
      [] p.T = "Subscribe" -> SubscribeBytes(p.packet.identifier, p.packet.topic)
      [] p.T = "Disconnect" -> DisconnectBytes

\* Connection::send(&packet), up to its first write
SendPacket(p) ==
    /\ pc = "idle"
    /\ ops < MaxSends
    /\ ops' = ops + 1
    /\ op' = [name |-> "send_packet", T |-> "none",
              header |-> FixedHeaderBytes(FixedHeaderNew(PacketTYPE(p), PacketFlags(p),
                                                         PacketSize(p))),
              body |-> PacketBytes(p),
              reads |-> 0, wstart |-> Len(writer), full |-> FALSE]
    /\ result' = NoResult
    /\ pc' = "send_header"
    /\ UNCHANGED <<conn, growable, reader, writer, identifier, returned, cancelled, stream>>
    /\ UNCHANGED <<calc, torn>>

\* a connection over a transport the server has sent nothing on
WireInit ==
    /\ \E b \in Buffers : rx_buffer = Zeros(b.len) /\ growable = b.growable
    /\ size = 0
    /\ position = None
    /\ reader = <<>> /\ stream = <<>>
    /\ writer = <<>>
    /\ identifier = 20000
    /\ pc = "idle"
    /\ op = NoOp
    /\ result = NoResult
    /\ returned = <<>>
    /\ cancelled = {}
    /\ ops = 0
    /\ torn = FALSE
    /\ calc = NoCalc

WireNext ==
    \/ \E i \in DOMAIN WirePackets : SendPacket(WirePackets[i])
    \/ WriteHeader
    \/ WriteBody
    \/ WriteError
    \/ Cancel

WireSpec == WireInit /\ [][WireNext]_vars

(***************************************************************************)
(* The identifier counter over the life of a client: subscribe called any  *)
(* number of times on a transport that refuses every write, so that each   *)
(* call allocates its identifier and returns the transport's error.        *)
(***************************************************************************)
\* Client::subscribe(topic) when the write of the fixed header fails:
\* next_identifier(), then `?` on Connection::send
SubscribeRefused(topic) ==
    /\ pc = "idle"
    /\ identifier' = (identifier + 1) % 65536
    /\ result' = [op |-> "subscribe", k |-> "err", v |-> "Connection", eof |-> FALSE]
    /\ calc' = [NoCalc EXCEPT !.n = identifier,
                              !.data = SubscribeBytes(identifier, topic)]
    /\ UNCHANGED <<conn, growable, reader, writer, pc, op, returned, cancelled, stream,
                   ops, torn>>

CounterNext == \E topic \in Topics : SubscribeRefused(topic)

\* Client::new over a connection with a Vec<u8> buffer, the server silent
CounterInit == Init /\ growable /\ stream = <<>>

CounterSpec == CounterInit /\ [][CounterNext]_vars

(***************************************************************************)
(* VariableByteInteger on its own: a number to encode and a byte slice to  *)
(* parse are given; encode, parse of the encoded form and parse of the     *)
(* slice are applied, each once.                                           *)
(***************************************************************************)
\* u32 values around every length boundary, and beyond the largest
VbiNumbers ==
    {0, 1, 127, 128, 129, 300, 16383, 16384, 17000, 2097151, 2097152, 200000000,
     268435455, 268435456, 2000000000}

\* slices handed to parse: the examples of its documentation, slices that
\* end early, over-long and non-minimal forms, bytes after the end
VbiInputs ==
    {<<>>, <<0>>, <<127>>, <<128>>, <<128, 1>>, <<128, 1, 255>>, <<255, 127>>,
     <<255, 255, 255>>, <<255, 255, 255, 127>>, <<255, 255, 255, 127, 9>>,
     <<255, 255, 255, 255>>, <<128, 128, 128, 128, 1>>, <<128, 0>>, <<0, 5>>}

\* the inputs are given; the client stays as constructed
VbiInit ==
    /\ rx_buffer = <<>> /\ growable = TRUE
    /\ size = 0
    /\ position = None
    /\ reader = <<>> /\ stream = <<>>
    /\ writer = <<>>
    /\ identifier = 20000
    /\ pc = "idle"
    /\ op = NoOp
    /\ result = NoResult
    /\ returned = <<>>
    /\ cancelled = {}
    /\ ops = 0
    /\ torn = FALSE
    /\ \E n \in VbiNumbers : \E data \in VbiInputs :
          calc = [NoCalc EXCEPT !.n = n, !.data = data]

\* VariableByteInteger::try_from(n)
VbiEncodeStep ==
    /\ Len(calc.encoded) = 0
    /\ calc' = [calc EXCEPT !.encoded = <<VbiEncode(calc.n)>>]
    /\ UNCHANGED <<conn, growable, reader, writer, identifier, pc, op, result, returned,
                   cancelled, stream, ops, torn>>

\* VariableByteInteger::parse(encoded.as_slice())
VbiDecodeStep ==
    /\ Len(calc.encoded) = 1 /\ Len(calc.decoded) = 0
    /\ ~(calc.encoded[1] = "overflow")
    /\ calc' = [calc EXCEPT !.decoded = <<VbiParse(VbiAsSlice(calc.encoded[1]))>>]
    /\ UNCHANGED <<conn, growable, reader, writer, identifier, pc, op, result, returned,
                   cancelled, stream, ops, torn>>

\* VariableByteInteger::parse(data)
VbiParseStep ==
    /\ Len(calc.parsed) = 0
    /\ calc' = [calc EXCEPT !.parsed = <<VbiParse(calc.data)>>]
    /\ UNCHANGED <<conn, growable, reader, writer, identifier, pc, op, result, returned,
                   cancelled, stream, ops, torn>>

VbiNext == VbiEncodeStep \/ VbiDecodeStep \/ VbiParseStep

VbiSpec == VbiInit /\ [][VbiNext]_vars

(***************************************************************************)
(* ConnAckReason on its own and in a CONNACK: a byte is given; it is       *)
(* parsed as a reason and the reason converted back, and a client connects *)
(* to a server that answers with a CONNACK carrying that byte.             *)
(***************************************************************************)
\* every value of a u8
Bytes == 0..255

\* the byte is given; the client is new, over a Vec<u8> buffer
ReasonInit ==
    /\ rx_buffer = <<>> /\ growable = TRUE
    /\ size = 0
    /\ position = None
    /\ writer = <<>>
    /\ identifier = 20000
    /\ pc = "idle"
    /\ op = NoOp
    /\ result = NoResult
    /\ returned = <<>>
    /\ cancelled = {}
    /\ ops = 0
    /\ torn = FALSE
    /\ \E b \in Bytes :
          /\ reader = ConnAckWith(b) /\ stream = ConnAckWith(b)
          /\ calc = [NoCalc EXCEPT !.n = b, !.data = <<b>>]

\* cursor.read::<ConnAckReason>() on the one byte
ConnAckReasonStep ==
    /\ ops = 0
    /\ Len(calc.parsed) = 0
    /\ calc' = [calc EXCEPT !.parsed = <<ConnAckReasonParse(calc.data)>>]
    /\ UNCHANGED <<conn, growable, reader, writer, identifier, pc, op, result, returned,
                   cancelled, stream, ops, torn>>

\* `reason as u8` of the parsed reason
ConnAckReasonAsU8Step ==
    /\ ops = 0
    /\ Len(calc.parsed) = 1 /\ Len(calc.decoded) = 0
    /\ calc.parsed[1].k = "ok"
    /\ calc' = [calc EXCEPT !.decoded = <<ConnAckReasonAsU8(calc.parsed[1].v)>>]
    /\ UNCHANGED <<conn, growable, reader, writer, identifier, pc, op, result, returned,
                   cancelled, stream, ops, torn>>

ReasonNext ==
    \/ ConnAckReasonStep
    \/ ConnAckReasonAsU8Step
    \/ \E packet \in ConnectRequests : Connect(packet)
    \/ WriteHeader
    \/ WriteBody
    \/ WriteError
    \/ ReceiveEntry
    \/ LoopStep
    \/ ReadSome
    \/ ReadZero
    \/ ReadError
    \/ Cancel

ReasonSpec == ReasonInit /\ [][ReasonNext]_vars

(***************************************************************************)
(* QoS on its own and in a PUBLISH: a byte is given; it is converted to a  *)
(* QoS and the QoS back, and a client receives from a server that sends a  *)
(* PUBLISH whose flags nibble is the low half of that byte.                *)
(***************************************************************************)
\* PUBLISH of topic "t" with the given flags nibble and 7 bytes after the
\* fixed header: with QoS 0 the payload is 00 00 68, with a higher QoS the
\* identifier is 0 and the payload 68
PublishFlagged(flags) == <<48 + flags, 7, 0, 1, 116, 0, 0, 0, 104>>

\* the byte is given; the client is new, over a Vec<u8> buffer
QoSInit ==
    /\ rx_buffer = <<>> /\ growable = TRUE
    /\ size = 0
    /\ position = None
    /\ writer = <<>>
    /\ identifier = 20000
    /\ pc = "idle"
    /\ op = NoOp
    /\ result = NoResult
    /\ returned = <<>>
    /\ cancelled = {}
    /\ ops = 0
    /\ torn = FALSE
    /\ \E v \in Bytes :
          /\ reader = PublishFlagged(v % 16) /\ stream = PublishFlagged(v % 16)
          /\ calc = [NoCalc EXCEPT !.n = v]

\* QoS::try_from(v)
QoSTryFromStep ==
    /\ ops = 0
    /\ Len(calc.parsed) = 0
    /\ calc' = [calc EXCEPT !.parsed = <<QoSTryFrom(calc.n)>>]
    /\ UNCHANGED <<conn, growable, reader, writer, identifier, pc, op, result, returned,
                   cancelled, stream, ops, torn>>

\* u8::from(qos) of the converted value
QoSAsU8Step ==
    /\ ops = 0
    /\ Len(calc.parsed) = 1 /\ Len(calc.decoded) = 0
    /\ calc.parsed[1].k = "ok"
    /\ calc' = [calc EXCEPT !.decoded = <<QoSAsU8(calc.parsed[1].v)>>]
    /\ UNCHANGED <<conn, growable, reader, writer, identifier, pc, op, result, returned,
                   cancelled, stream, ops, torn>>

QoSNext ==
    \/ QoSTryFromStep
    \/ QoSAsU8Step
    \/ Receive
    \/ ReceiveEntry
    \/ LoopStep
    \/ ReadSome
    \/ ReadZero
    \/ ReadError
    \/ Cancel

QoSSpec == QoSInit /\ [][QoSNext]_vars

(***************************************************************************)
(* Publish on its own: a Publish value is written as Connection::send      *)
(* writes it and the bytes written are parsed; or a byte slice is given    *)
(* and parsed, as Connection::receive::<Publish> parses its buffer.        *)
(***************************************************************************)
\* "topic", "hello"
Topic == <<116, 111, 112, 105, 99>>

Hello == <<104, 101, 108, 108, 111>>

\* a payload that takes the remaining length to two bytes
LongPayload == [i \in 1..130 |-> i % 256]

\* the Publish values handed to send; some carry an identifier with QoS 0
\* or none with a higher QoS
PublishValues ==
    [dup : BOOLEAN, qos : {"AtMostOnce", "AtLeastOnce", "ExactlyOnce"},
     retain : BOOLEAN, identifier : {None, 1, 65535},
     topic : {<<>>, Topic}, payload : {<<>>, Hello, LongPayload}]

\* what a server puts into a PUBLISH: the flags nibble, the topic, the packet
\* identifier (sent with QoS bits other than 0), the bytes of the property
\* block, the payload, and the bytes of whatever follows the packet
PublishParts ==
    [flags : 0..15, topic : {<<116>>, Topic}, identifier : {258},
     properties : {<<>>, <<1, 1>>}, payload : {<<>>, Hello, LongPayload},
     tail : {<<>>, <<48>>}]

\* the bytes after the fixed header of the PUBLISH made of these parts
PublishWireBody(parts) ==
    U16Bytes(Len(parts.topic)) \o parts.topic
    \o (IF (parts.flags \div 2) % 4 = 0 THEN <<>> ELSE U16Bytes(parts.identifier))
    \o VbiAsSlice(VbiEncode(Len(parts.properties))) \o parts.properties
    \o parts.payload

\* the PUBLISH made of these parts, followed by the tail
PublishWire(parts) ==
    <<PublishTYPE * 16 + parts.flags>>
    \o VbiAsSlice(VbiEncode(Len(PublishWireBody(parts))))
    \o PublishWireBody(parts) \o parts.tail

\* the PUBLISH of the specification's decode scenario, and the same bytes
\* with the remaining length that counts them
ScenarioPublish == <<48, 14, 0, 5, 116, 111, 112, 105, 99, 0, 104, 101, 108, 108, 111>>

ScenarioPublishCounted ==
    <<48, 13, 0, 5, 116, 111, 112, 105, 99, 0, 104, 101, 108, 108, 111>>

\* PUBLISH, QoS 1, whose remaining length (3) ends inside the identifier
PubUnderflowIdentifier == <<50, 3, 0, 1, 116, 0, 7, 0, 104>>

\* PUBLISH whose remaining length (4) ends inside the property block
PubUnderflowProperties == <<48, 4, 0, 1, 116, 2, 1, 1, 104>>

\* the slices handed to Publish::parse
PublishInputs ==
    {PublishWire(parts) : parts \in PublishParts}
    \cup Prefixes(ScenarioPublishCounted)
    \cup {ScenarioPublish, ScenarioPublish \o <<48>>, PubUnderflow,
          PubUnderflowIdentifier, PubUnderflowProperties, PubBadLength, PubQoS3,
          ConnAckOk, SubAckOk}

\* either a value to send or a slice to parse is given
PublishInit ==
    /\ rx_buffer = <<>> /\ growable = TRUE
    /\ size = 0
    /\ position = None
    /\ reader = <<>> /\ stream = <<>>
    /\ writer = <<>>
    /\ identifier = 20000
    /\ pc = "idle"
    /\ op = NoOp
    /\ result = NoResult
    /\ returned = <<>>
    /\ cancelled = {}
    /\ ops = 0
    /\ torn = FALSE
    /\ \/ \E packet \in PublishValues : calc = [NoCalc EXCEPT !.n = 1, !.packet = <<packet>>]
       \/ \E data \in PublishInputs : calc = [NoCalc EXCEPT !.data = data]

\* Connection::send(&packet): FixedHeader::new(TYPE, flags(), size()) and
\* packet.write_to, both written
PublishSendStep ==
    /\ Len(calc.packet) = 1 /\ Len(calc.encoded) = 0
    /\ LET packet == calc.packet[1]
       IN  calc' = [calc EXCEPT !.encoded =
                       <<FixedHeaderBytes(FixedHeaderNew(PublishTYPE, PublishFlags(packet),
                                                         PublishSize(packet)))
                         \o PublishBytes(packet)>>]
    /\ UNCHANGED <<conn, growable, reader, writer, identifier, pc, op, result, returned,
                   cancelled, stream, ops, torn>>

\* what a call of Publish::parse comes to: its result, or for the wrapped
\* subtraction the NotEnoughData of read_slice or a panic
PublishParseOutcomes(data) ==
    LET r == PublishParse(data)
    IN  IF r.k = "overflow" THEN {NotEnoughData, [k |-> "panic"]} ELSE {r}

\* Publish::parse of the bytes written
PublishLoopStep ==
    /\ Len(calc.encoded) = 1 /\ Len(calc.decoded) = 0
    /\ \E r \in PublishParseOutcomes(calc.encoded[1]) :
          calc' = [calc EXCEPT !.decoded = <<r>>]
    /\ UNCHANGED <<conn, growable, reader, writer, identifier, pc, op, result, returned,
                   cancelled, stream, ops, torn>>

\* Publish::parse(data)
PublishParseStep ==
    /\ Len(calc.packet) = 0 /\ Len(calc.parsed) = 0
    /\ \E r \in PublishParseOutcomes(calc.data) :
          calc' = [calc EXCEPT !.parsed = <<r>>]
    /\ UNCHANGED <<conn, growable, reader, writer, identifier, pc, op, result, returned,
                   cancelled, stream, ops, torn>>

PublishNext == PublishSendStep \/ PublishLoopStep \/ PublishParseStep

PublishSpec == PublishInit /\ [][PublishNext]_vars

(***************************************************************************)
(* The parsers on their own: Parse::parse of each type (protocol/mod.rs)   *)
(* is handed a slice, and the same slice with more bytes behind it, as     *)
(* Connection::receive does when bytes of the following packets are        *)
(* already in the buffer.                                                  *)
(***************************************************************************)
\* the parsed types: the packets a receive waits for and the protocol types
\* they are made of
ParsedTypes == {"ConnAck", "SubAck", "Publish", "FixedHeader", "Vbi", "BinaryData",
                "EncodedStr"}

\* T::parse(data)
ParseAs(T, data) ==
    CASE T = "FixedHeader" -> FixedHeaderParse(data)
      [] T = "Vbi" -> VbiParse(data)
      [] T = "BinaryData" -> BinaryDataParse(data)
      [] T = "EncodedStr" -> EncodedStrParse(data)
      [] OTHER -> Parse(T, data)

\* slices to parse: every packet of the scenarios and every prefix of it,
\* length-prefixed data, variable byte integers
ParseInputs ==
    UNION {Prefixes(p) : p \in Packets \cup {SubAckOther}}
    \cup {<<0, 0>>, <<0, 2, 104, 105>>, <<0, 2, 195, 169>>, <<0, 1, 255>>}
    \cup VbiInputs

\* what may follow in the buffer: nothing, single bytes, the start of a
\* variable byte integer, whole packets
ParseMore == {<<>>, <<0>>, <<255>>, <<128, 1>>, PubA, ConnAckOk, SubAckOk}

\* the slices are given; the client stays as constructed
ParseInit ==
    /\ rx_buffer = <<>> /\ growable = TRUE
    /\ size = 0
    /\ position = None
    /\ reader = <<>> /\ stream = <<>>
    /\ writer = <<>>
    /\ identifier = 20000
    /\ pc = "idle"
    /\ op = NoOp
    /\ result = NoResult
    /\ returned = <<>>
    /\ cancelled = {}
    /\ ops = 0
    /\ torn = FALSE
    /\ \E T \in ParsedTypes : \E data \in ParseInputs : \E more \in ParseMore :
          calc = [NoCalc EXCEPT !.T = T, !.data = data, !.more = more]

\* the parser's outcomes: the underflow of Publish::parse wraps or panics
ParseOutcomes(T, data) ==
    LET r == ParseAs(T, data)
    IN  IF r.k = "overflow" THEN {NotEnoughData, [k |-> "panic"]} ELSE {r}

\* T::parse(data)
ParseShortStep ==
    /\ Len(calc.parsed) = 0
    /\ \E r \in ParseOutcomes(calc.T, calc.data) :
          calc' = [calc EXCEPT !.parsed = <<r>>]
    /\ UNCHANGED <<conn, growable, reader, writer, identifier, pc, op, result, returned,
                   cancelled, stream, ops, torn>>

\* T::parse of data with more bytes behind it
ParseLongStep ==
    /\ Len(calc.extended) = 0
    /\ \E r \in ParseOutcomes(calc.T, calc.data \o calc.more) :
          calc' = [calc EXCEPT !.extended = <<r>>]
    /\ UNCHANGED <<conn, growable, reader, writer, identifier, pc, op, result, returned,
                   cancelled, stream, ops, torn>>

ParseNext == ParseShortStep \/ ParseLongStep

ParseSpec == ParseInit /\ [][ParseNext]_vars

(***************************************************************************)
(* The buffers on their own (traits.rs): try_resize is called again and    *)
(* again on a Vec<u8>, a [u8; N] and a &mut [u8] of each length.           *)
(***************************************************************************)
\* calls of try_resize in one run
MaxResizes == 4

\* the implementors of Buffer
BufferKinds == {"Vec", "Array", "Slice"}

\* lengths around the ends of the clamp: 2 * len reaches 32 at 16 and 8192
\* at 4096
BufferLengths == {0, 1, 2, 15, 16, 17, 31, 32, 33, 100, 128, 1000, 4095, 4096, 4097,
                  5000, 8192, 10000}

\* a buffer in use: no byte of it is zero
Filled(len) == [i \in 1..len |-> 1 + (i % 255)]

\* Buffer::try_resize: Vec<u8> grows, the default refuses and leaves the
\* buffer as it is
BufferTryResize(kind, buf) ==
    IF kind = "Vec"
    THEN [k |-> "ok", buf |-> VecTryResize(buf)]
    ELSE [k |-> "err", v |-> "BufferNotResizable", buf |-> buf]

ResizeInit ==
    /\ \E kind \in BufferKinds : \E len \in BufferLengths :
          /\ rx_buffer = Filled(len)
          /\ growable = (kind = "Vec")
          /\ calc = [NoCalc EXCEPT !.T = kind]
    /\ size = 0
    /\ position = None
    /\ reader = <<>> /\ stream = <<>>
    /\ writer = <<>>
    /\ identifier = 20000
    /\ pc = "idle"
    /\ op = NoOp
    /\ result = NoResult
    /\ returned = <<>>
    /\ cancelled = {}
    /\ ops = 0
    /\ torn = FALSE

\* rx_buffer.try_resize()
TryResizeStep ==
    /\ calc.n < MaxResizes
    /\ LET r == BufferTryResize(calc.T, rx_buffer)
       IN  /\ rx_buffer' = r.buf
           /\ result' = [op |-> "try_resize", k |-> r.k,
                         v |-> IF r.k = "ok" THEN "unit" ELSE r.v, eof |-> FALSE]
    /\ calc' = [calc EXCEPT !.n = @ + 1]
    /\ UNCHANGED <<growable, size, position, reader, writer, identifier, pc, op, returned,
                   cancelled, stream, ops, torn>>

ResizeNext == TryResizeStep

ResizeSpec == ResizeInit /\ [][ResizeNext]_vars

(***************************************************************************)
(* Receiving into a Vec<u8>: the client of the integration tests is built  *)
(* on Vec::new() (tests/common/mosquitto.rs); the server sends PUBLISH     *)
(* packets that do not fit the buffer until it has grown, once or several  *)
(* times.                                                                  *)
(***************************************************************************)
\* a PUBLISH of 39 bytes: topic "t", a payload of 33 bytes
PubLarge == <<48, 37, 0, 1, 116, 0>> \o [i \in 1..33 |-> i]

\* lengths the Vec is created with: Vec::new(), vec![0; 4], vec![0; 32]
VecLengths == {0, 4, 32}

\* what the server sends: a large packet, two small ones, a large one after a
\* small one, a packet whose length is not a variable byte integer
GrowStreams == {PubLarge, PubA \o PubB, PubB \o PubLarge, PubBadLength}

GrowInit ==
    /\ \E len \in VecLengths : rx_buffer = Zeros(len)
    /\ growable = TRUE
    /\ size = 0
    /\ position = None
    /\ \E s \in GrowStreams : reader = s /\ stream = s
    /\ writer = <<>>
    /\ identifier = 20000
    /\ pc = "idle"
    /\ op = NoOp
    /\ result = NoResult
    /\ returned = <<>>
    /\ cancelled = {}
    /\ ops = 0
    /\ torn = FALSE
    /\ calc = NoCalc

GrowNext ==
    \/ Receive
    \/ ReceiveEntry
    \/ LoopStep
    \/ ReadSome
    \/ ReadZero
    \/ ReadError
    \/ Cancel

GrowSpec == GrowInit /\ [][GrowNext]_vars

(***************************************************************************)
(* The connect builder (client/connect.rs, client/utils.rs): connect()     *)
(* returns a builder that holds the CONNECT packet and the closure that    *)
(* sends it; builder methods change the packet; the first poll hands the   *)
(* packet to the closure and from then on the future it returned is        *)
(* polled.  calc.packet holds the builder's packet, calc.T its inner state *)
(* (Make or Future), calc.n the builder methods called, calc.encoded the   *)
(* packets the closure was invoked with.                                   *)
(***************************************************************************)
\* builder methods called on one builder
MaxCalls == 2

\* what the server answers: a CONNACK, or part of one before it closes
LazyStreams == {ConnAckOk, ConnAckSession, SubSeq(ConnAckSession, 1, 4)}

LazyInit ==
    /\ rx_buffer = <<>> /\ growable = TRUE
    /\ size = 0
    /\ position = None
    /\ \E s \in LazyStreams : reader = s /\ stream = s
    /\ writer = <<>>
    /\ identifier = 20000
    /\ pc = "idle"
    /\ op = NoOp
    /\ result = NoResult
    /\ returned = <<>>
    /\ cancelled = {}
    /\ ops = 0
    /\ torn = FALSE
    /\ calc = NoCalc

\* Client::connect(client_id): Connect::new with LazyMakeFuture::Make
ClientConnect(client_id) ==
    /\ calc.T = "none"
    /\ calc' = [calc EXCEPT !.T = "Make", !.packet = <<ConnectNew(client_id)>>]
    /\ UNCHANGED <<conn, growable, reader, writer, identifier, pc, op, result, returned,
                   cancelled, stream, ops, torn>>

\* the values the builder methods are called with
BuilderCalls(packet) ==
    {keep_alive(packet, v) : v \in {0, 66}}
    \cup {resume_session(packet, b) : b \in BOOLEAN}
    \cup {with_username(packet, u) : u \in {<<None>>, Aaa}}
    \cup {with_password(packet, p) : p \in {<<None>>, Bbb}}
    \cup {with_properties(packet, ps) : ps \in {<<>>, <<CP("ReceiveMaximum", 10)>>}}

\* keep_alive, resume_session, with_username, with_password, with_properties:
\* each takes the builder by value and returns it with one field set
BuilderCall ==
    /\ calc.T = "Make"
    /\ calc.n < MaxCalls
    /\ \E packet \in BuilderCalls(calc.packet[1]) :
          calc' = [calc EXCEPT !.packet = <<packet>>, !.n = @ + 1]
    /\ UNCHANGED <<conn, growable, reader, writer, identifier, pc, op, result, returned,
                   cancelled, stream, ops, torn>>

\* a first poll that sends the packet as Connect::new created it
FirstPollAsCreated ==
    /\ calc.T = "Make"
    /\ LET packet == ConnectNew(calc.packet[1].client_id)
       IN  /\ StartOp("connect", "ConnAck",
                      FixedHeaderBytes(FixedHeaderNew(ConnectTYPE, 0, ConnectSize(packet))),
                      ConnectBytes(packet))
           /\ calc' = [calc EXCEPT !.T = "Future", !.encoded = Append(@, packet)]
    /\ pc' = "send_header"
    /\ UNCHANGED <<conn, growable, reader, writer, identifier, returned, cancelled, stream,
                   torn>>

\* the first poll: LazyMakeFuture::poll in state Make takes the closure,
\* calls it with a copy of the packet and polls the future it returns, which
\* runs Connection::send up to its first write
FirstPoll ==
    /\ calc.T = "Make"
    /\ LET packet == calc.packet[1]
       IN  /\ StartOp("connect", "ConnAck",
                      FixedHeaderBytes(FixedHeaderNew(ConnectTYPE, 0, ConnectSize(packet))),
                      ConnectBytes(packet))
           /\ calc' = [calc EXCEPT !.T = "Future", !.encoded = Append(@, packet)]
    /\ pc' = "send_header"
    /\ UNCHANGED <<conn, growable, reader, writer, identifier, returned, cancelled, stream,
                   torn>>

\* every later poll is LazyMakeFuture::poll in state Future: the steps of
\* the connect in flight
LazyNext ==
    \/ \E client_id \in {<<109>>, Miniqtt} : ClientConnect(client_id)
    \/ BuilderCall
    \/ FirstPoll
    \/ WriteHeader
    \/ WriteBody
    \/ WriteError
    \/ ReceiveEntry
    \/ LoopStep
    \/ ReadSome
    \/ ReadZero
    \/ ReadError
    \/ Cancel

LazySpec == LazyInit /\ [][LazyNext]_vars

(***************************************************************************)
(* Length-prefixed data on its own (protocol/types.rs): an EncodedStr or a *)
(* BinaryData of each length is written.                                   *)
(***************************************************************************)
\* lengths of the data: short ones, and those around the ends of one and of
\* two length bytes
PrefixedLengths ==
    (0..40) \cup {127, 128, 255, 256, 257, 1000, 65534, 65535, 65536, 65537, 65791,
                  131072}

\* a string of n letters "a"
Letters(n) == [i \in 1..n |-> 97]

\* EncodedStr::write_to and BinaryData::write_to
PrefixedBytes(T, data) ==
    IF T = "EncodedStr" THEN EncodedStrBytes(data) ELSE BinaryDataBytes(data)

\* the data is given; the client stays as constructed
PrefixedInit ==
    /\ rx_buffer = <<>> /\ growable = TRUE
    /\ size = 0
    /\ position = None
    /\ reader = <<>> /\ stream = <<>>
    /\ writer = <<>>
    /\ identifier = 20000
    /\ pc = "idle"
    /\ op = NoOp
    /\ result = NoResult
    /\ returned = <<>>
    /\ cancelled = {}
    /\ ops = 0
    /\ torn = FALSE
    /\ \E T \in {"EncodedStr", "BinaryData"} : \E n \in PrefixedLengths :
          calc = [NoCalc EXCEPT !.T = T, !.n = n, !.data = Letters(n)]

\* T(data).write_to(sink)
PrefixedWriteStep ==
    /\ Len(calc.encoded) = 0
    /\ calc' = [calc EXCEPT !.encoded = <<PrefixedBytes(calc.T, calc.data)>>]
    /\ UNCHANGED <<conn, growable, reader, writer, identifier, pc, op, result, returned,
                   cancelled, stream, ops, torn>>

PrefixedNext == PrefixedWriteStep

PrefixedSpec == PrefixedInit /\ [][PrefixedNext]_vars

(***************************************************************************)
(* The parsing cursor on its own (utils.rs): a cursor is created on a      *)
(* slice and read from, one read after the other, whether or not the read  *)
(* before failed.  calc.data is the slice, calc.n the cursor's position,   *)
(* calc.more the reads made, calc.parsed the result of the last one.       *)
(***************************************************************************)
\* reads made on one cursor
MaxReads == 2

\* slices a cursor is created on
CursorSlices ==
    {<<>>, <<7>>, <<0, 1>>, <<1, 2, 3>>, <<0, 2, 104, 105>>, <<128, 1, 9>>, <<128>>,
     <<48, 0>>, <<0, 3, 97>>, <<255, 255, 255, 255, 1>>}

\* the reads: read_u8, read_u16_be, read_slice(amount), read::<T>
CursorReads ==
    {[name |-> "read_u8"], [name |-> "read_u16_be"]}
    \cup {[name |-> "read_slice", amount |-> n] : n \in 0..3}
    \cup {[name |-> "read", T |-> T] :
            T \in {"FixedHeader", "Vbi", "BinaryData", "EncodedStr"}}

\* a cursor and the result of a read on it
Read(c, r) == [c |-> c, r |-> r]

Advance(c, n) == [c EXCEPT !.position = @ + n]

\* Cursor::read_u8
CursorReadU8(c) ==
    IF Len(CursorRem(c)) < 1 THEN Read(c, NotEnoughData)
    ELSE Read(Advance(c, 1), Ok(1, CursorRem(c)[1]))

\* Cursor::read_u16_be: the second read_u8 fails after the first has advanced
CursorReadU16Be(c) ==
    LET msb == CursorReadU8(c)
    IN  IF msb.r.k # "ok" THEN msb
        ELSE LET lsb == CursorReadU8(msb.c)
             IN  IF lsb.r.k # "ok" THEN lsb
                 ELSE Read(lsb.c, Ok(2, msb.r.v * 256 + lsb.r.v))

\* Cursor::read_slice
CursorReadSlice(c, amount) ==
    IF Len(CursorRem(c)) < amount THEN Read(c, NotEnoughData)
    ELSE Read(Advance(c, amount), Ok(amount, SubSeq(CursorRem(c), 1, amount)))

\* T::parse for the types read with Cursor::read
ReadParse(T, data) ==
    CASE T = "FixedHeader" -> FixedHeaderParse(data)
      [] T = "Vbi" -> VbiParse(data)
      [] T = "BinaryData" -> BinaryDataParse(data)
      [] T = "EncodedStr" -> EncodedStrParse(data)

\* Cursor::read::<T>
CursorRead(c, T) ==
    LET r == ReadParse(T, CursorRem(c))
    IN  Read(Advance(c, IF r.k = "ok" THEN r.n ELSE 0), r)

CursorApply(c, read) ==
    CASE read.name = "read_u8" -> CursorReadU8(c)
      [] read.name = "read_u16_be" -> CursorReadU16Be(c)
      [] read.name = "read_slice" -> CursorReadSlice(c, read.amount)
      [] read.name = "read" -> CursorRead(c, read.T)

\* Cursor::new(buf); the client stays as constructed
CursorInit ==
    /\ rx_buffer = <<>> /\ growable = TRUE
    /\ size = 0
    /\ position = None
    /\ reader = <<>> /\ stream = <<>>
    /\ writer = <<>>
    /\ identifier = 20000
    /\ pc = "idle"
    /\ op = NoOp
    /\ result = NoResult
    /\ returned = <<>>
    /\ cancelled = {}
    /\ ops = 0
    /\ torn = FALSE
    /\ \E buf \in CursorSlices : calc = [NoCalc EXCEPT !.data = buf, !.n = CursorNew(buf).position]

\* one read on the cursor
CursorReadStep ==
    /\ Len(calc.more) < MaxReads
    /\ \E read \in CursorReads :
          LET c == [CursorNew(calc.data) EXCEPT !.position = calc.n]
              after == CursorApply(c, read)
          IN  calc' = [calc EXCEPT !.n = after.c.position,
                                   !.more = Append(@, read.name),
                                   !.parsed = <<after.r>>]
    /\ UNCHANGED <<conn, growable, reader, writer, identifier, pc, op, result, returned,
                   cancelled, stream, ops, torn>>

CursorNext == CursorReadStep

CursorSpec == CursorInit /\ [][CursorNext]_vars

(***************************************************************************)
(* The terms the properties are stated in                                  *)
(***************************************************************************)
\* the filled part of the receive buffer
Data == SubSeq(rx_buffer, 1, size)

IsPrefix(p, s) == Len(p) <= Len(s) /\ SubSeq(s, 1, Len(p)) = p

\* the packet type each client operation waits for
TOf(name) ==
    CASE name = "connect" -> "ConnAck"
      [] name = "subscribe" -> "SubAck"
      [] name = "receive" -> "Publish"
      [] OTHER -> "none"

RECURSIVE SumN(_)
SumN(s) == IF s = <<>> THEN 0 ELSE s[1].n + SumN(Tail(s))

\* the bytes of the stream the packets returned so far occupy
Consumed == SumN(returned)

\* the offset in the stream that offset 0 of the buffer stands for
BufBase == IF position = None THEN Consumed ELSE Consumed - position

\* A receive nothing interrupts, as a reference: it parses ever longer
\* prefixes of the rest of the stream and ends with the first outcome that
\* is not NotEnoughData.
RECURSIVE RefFrom(_, _, _)
RefFrom(T, rest, n) ==
    IF n > Len(rest) THEN NotEnoughData
    ELSE LET r == Parse(T, SubSeq(rest, 1, n))
         IN  IF r.k = "ned" THEN RefFrom(T, rest, n + 1) ELSE r

Uninterrupted(T, rest) == RefFrom(T, rest, 0)

\* the well-formed serialized packets among the scenarios, with their types
WellFormed ==
    {[T |-> "Publish", bytes |-> b] : b \in {PubA, PubB, PubLong}}
    \cup {[T |-> "ConnAck", bytes |-> b] :
            b \in {ConnAckOk, ConnAckNotAuthorized, ConnAckSession,
                   ConnAckWith(128), ConnAckWith(159)}}
    \cup {[T |-> "SubAck", bytes |-> SubAckOk]}

\* the errors Error (client/error.rs) can carry to the caller
ErrorKinds == {"Disconnected", "Protocol", "InsufficientBufferSize", "Connection"}

(***************************************************************************)
(* C1: Client::receive is cancel-safe.  Whatever receives were dropped     *)
(* while suspended in the transport read, and however the bytes were split *)
(* into reads: the buffer and the transport together still hold every byte *)
(* of the stream that no returned packet has consumed; every packet a      *)
(* receive returns is the packet, of the same length, that an              *)
(* uninterrupted receive returns at that place of the stream; and a        *)
(* receive does not end with Protocol or Disconnected where an             *)
(* uninterrupted one returns a packet.                                     *)
(***************************************************************************)
C1_CancelSafe ==
    /\ Data \o reader = Rem(stream, BufBase)
    /\ \A i \in DOMAIN returned :
          LET u == Uninterrupted(returned[i].T,
                                 Rem(stream, SumN(SubSeq(returned, 1, i - 1))))
          IN  u.k = "ok" /\ u.v = returned[i].packet /\ u.n = returned[i].n
    /\ (result.op = "receive" /\ result.k = "err"
            /\ result.v \in {"Protocol", "Disconnected"})
          => Uninterrupted("Publish", Rem(stream, BufBase)).k # "ok"

\* a receive was dropped after reads of that call had completed, and the
\* next receive returned the packet
C1_Witness ==
    /\ <<"receive", TRUE>> \in cancelled
    /\ result.op = "receive" /\ result.k = "ok"
    /\ Len(returned) = 1
    /\ ops = 2

C3_Compaction ==
    /\ pc \in {"loop", "read"} =>
          /\ position = None
          /\ Data = SubSeq(stream, Consumed + 1, Consumed + size)
          /\ reader = Rem(stream, Consumed + size)
    /\ position # None =>
          /\ position <= size
          /\ position = returned[Len(returned)].n
          /\ SubSeq(rx_buffer, 1, position)
                = SubSeq(stream, Consumed - position + 1, Consumed)

\* two receives returned a packet each, the second without any read of its own
C3_Witness ==
    /\ Len(returned) = 2
    /\ returned[1].T = "Publish" /\ returned[2].T = "Publish"
    /\ returned[2].reads = 0
    /\ result.op = "receive" /\ result.k = "ok"

(***************************************************************************)
(* C4: buffer too small.  With a fixed buffer of N bytes a receive         *)
(* performs at most N reads and never reads with a full buffer; and with a *)
(* well-formed packet longer than N bytes coming in, it does not panic,    *)
(* returns no packet, and ends (unless the transport fails) with           *)
(* InsufficientBufferSize, the buffer being full.                          *)
(***************************************************************************)
C4_BufferTooSmall ==
    ~growable =>
       /\ op.reads <= Len(rx_buffer)
       /\ pc = "read" => (~op.full /\ size < Len(rx_buffer))
       /\ \A w \in WellFormed :
             (Len(w.bytes) > Len(rx_buffer) /\ IsPrefix(w.bytes, Rem(stream, BufBase)))
             => /\ op.T = w.T => pc # "panicked"
                /\ (TOf(result.op) = w.T /\ result.k \notin {"none", "cancelled"})
                      => /\ result.k = "err"
                         /\ result.v \in {"InsufficientBufferSize", "Connection"}
                /\ (TOf(result.op) = w.T /\ result.v = "InsufficientBufferSize")
                      => size = Len(rx_buffer)

\* the 20-byte PUBLISH met the 8-byte buffer
C4_Witness ==
    /\ ~growable
    /\ Len(rx_buffer) = 8
    /\ IsPrefix(PubLong, stream)
    /\ result.op = "receive"
    /\ result.k = "err" /\ result.v = "InsufficientBufferSize"

(***************************************************************************)
(* C5: peer close.  An operation whose transport read returned zero bytes  *)
(* ends with Disconnected, with an empty buffer as with a partial packet   *)
(* in it, and returns no packet for it.                                    *)
(***************************************************************************)
C5_PeerClose ==
    result.eof =>
       /\ result.k = "err"
       /\ result.v = "Disconnected"
       /\ position = None

\* an abrupt close: the read returned zero with a partial packet in the buffer
C5_Witness ==
    /\ result.eof
    /\ result.op = "receive"
    /\ size > 0
    /\ Parse("Publish", Data).k = "ned"

(***************************************************************************)
(* C6: NotEnoughData never surfaces.  Every operation ends with a value or *)
(* with one of Disconnected, Protocol, InsufficientBufferSize and          *)
(* Connection; and a parse attempt that finds an incomplete packet is      *)
(* followed by a transport read or, with the buffer full, by a growth of   *)
(* the buffer or the InsufficientBufferSize of a growth that failed.       *)
(***************************************************************************)
C6_NotEnoughDataInternal ==
    /\ [](result.k \in {"none", "cancelled", "ok"}
            \/ (result.k = "err" /\ result.v \in ErrorKinds))
    /\ [][(pc = "loop" /\ Parse(op.T, Data).k = "ned")
            => \/ pc' = "read" /\ size < Len(rx_buffer) /\ result' = result
               \/ /\ size = Len(rx_buffer)
                  /\ \/ Len(rx_buffer') > Len(rx_buffer) /\ pc' = "loop"
                     \/ ~growable /\ result'.k = "err"
                           /\ result'.v = "InsufficientBufferSize"]_vars

\* a receive read on after an incomplete packet and returned the packet
C6_Witness ==
    /\ result.op = "receive" /\ result.k = "ok"
    /\ returned[Len(returned)].reads = 1
    /\ Len(rx_buffer) > 24

C8_ReservedFlags ==
    (result.op \in {"connect", "subscribe"} /\ result.k = "ok")
       => rx_buffer[1] % 16 = 0

(***************************************************************************)
(* C9: connect sends the CONNECT, then awaits the CONNACK.  From the first *)
(* parse attempt and read of a connect on, the transport has been written  *)
(* the whole CONNECT, fixed header then body; and when connect returns a   *)
(* response, it has consumed a whole CONNACK: the fixed header and as many *)
(* bytes as its remaining length counts.                                   *)
(***************************************************************************)
C9_ConnectThenConnAck ==
    /\ ((op.name = "connect" /\ pc \in {"entry", "loop", "read"})
          \/ (result.op = "connect" /\ result.k = "ok"))
       => \E packet \in ConnectRequests :
             /\ Len(writer) >= Len(ConnectBytes(packet)) + 2
             /\ SubSeq(writer, Len(writer) - Len(ConnectBytes(packet)) - 1, Len(writer))
                   = <<16, Len(ConnectBytes(packet))>> \o ConnectBytes(packet)
    /\ (result.op = "connect" /\ result.k = "ok")
       => /\ position # None
          /\ rx_buffer[1] \div 16 = ConnAckTYPE
          /\ position = 2 + rx_buffer[2]

(***************************************************************************)
(* C10: connect result.  A well-formed CONNACK with a defined reason code  *)
(* does not make connect fail as a protocol error or a disconnect; and     *)
(* when connect returns a response, the response carries the reason the    *)
(* CONNACK's reason byte encodes, successful() holds exactly when that     *)
(* byte is 0x00, and session_present() holds exactly when bit 0 of the     *)
(* CONNACK's acknowledge flags byte is set.                                *)
(***************************************************************************)
C10_ConnectResult ==
    /\ (result.op = "connect" /\ result.k = "err"
          /\ \E w \in WellFormed :
                w.T = "ConnAck" /\ IsPrefix(w.bytes, Rem(stream, BufBase)))
       => result.v \in {"Connection", "InsufficientBufferSize"}
    /\ (result.op = "connect" /\ result.k = "ok")
       => /\ ConnAckReasonAsU8(result.v.ack.reason) = rx_buffer[4]
          /\ successful(result.v) <=> rx_buffer[4] = 0
          /\ session_present(result.v) <=> rx_buffer[3] % 2 = 1

\* server bytes 20 03 00 87 00: connect returned, not successful, NotAuthorized
C10_Witness ==
    /\ result.op = "connect" /\ result.k = "ok"
    /\ stream = ConnAckNotAuthorized
    /\ ~successful(result.v)
    /\ result.v.ack.reason = "NotAuthorized"
    /\ ~session_present(result.v)


(***************************************************************************)
(* The wire formats, stated byte by byte                                   *)
(***************************************************************************)
\* a string or binary value with its two-byte big-endian length in front
LengthPrefixed(bytes) == <<Len(bytes) \div 256, Len(bytes) % 256>> \o bytes

\* 1 if the condition holds, else 0
Bit(b) == IF b THEN 1 ELSE 0

\* the CONNECT packet of a request: 0x10, the remaining length, the protocol
\* name and version, the flags, the keep alive, the properties, the payload
ConnectLayout(request) ==
    LET has_will == Len(request.will) > 0
        flags == Bit(request.username # <<None>>) * 128
                 + Bit(request.password # <<None>>) * 64
                 + Bit(has_will /\ request.will[1].retain) * 32
                 + (IF has_will THEN QoSAsU8(request.will[1].qos) ELSE 0) * 8
                 + Bit(has_will) * 4
                 + Bit(request.clean_start) * 2
        remaining ==
            <<0, 4, 77, 81, 84, 84, 5, flags,
              request.keep_alive \div 256, request.keep_alive % 256>>
            \o PropertiesBytes(request.properties)
            \o LengthPrefixed(request.client_id)
            \o (IF has_will THEN WillBytes(request.will[1]) ELSE <<>>)
            \o (IF request.username # <<None>>
                THEN LengthPrefixed(request.username) ELSE <<>>)
            \o (IF request.password # <<None>>
                THEN LengthPrefixed(request.password) ELSE <<>>)
    IN  <<16>> \o VbiAsSlice(VbiEncode(Len(remaining))) \o remaining

\* 10 1e 00 04 4d 51 54 54 05 c2 00 42 00 00 07 6d 69 6e 69 71 74 74
\* 00 03 61 61 61 00 03 62 62 62
MiniqttConnect ==
    <<16, 30, 0, 4, 77, 81, 84, 84, 5, 194, 0, 66, 0, 0, 7, 109, 105, 110, 105, 113,
      116, 116, 0, 3, 97, 97, 97, 0, 3, 98, 98, 98>>

\* the bytes the running operation has written since it started
Written == SubSeq(writer, op.wstart + 1, Len(writer))

\* the step in which Connection::send returns Ok
SendReturns == pc = "send_body" /\ pc' # "send_body" /\ Len(writer') > Len(writer)

(***************************************************************************)
(* C11: CONNECT wire format.  For every request the builder makes, the     *)
(* fixed header and body Connection::send is given are byte for byte       *)
(* 0x10, the remaining length as a variable byte integer, 00 04 "MQTT" 05, *)
(* the connect-flags byte (username 7, password 6, will retain 5, will qos *)
(* 4-3, will 2, clean start 1, bit 0 clear; clean start 1 by default and   *)
(* !resume after resume_session), keep_alive big-endian (0 by default),    *)
(* the property list, client_id, then the optional will, username and      *)
(* password, each length-prefixed; when the send returns, exactly these    *)
(* bytes were written, once; and the request of client_id "miniqtt",       *)
(* keep_alive 0x42, username "aaa", password "bbb" writes 10 1e 00 04 4d   *)
(* 51 54 54 05 c2 00 42 00 00 07 6d 69 6e 69 71 74 74 00 03 61 61 61 00 03 *)
(* 62 62 62.                                                               *)
(***************************************************************************)
C11_ConnectWireFormat ==
    [][ /\ \A i \in DOMAIN BuilderRequests :
              SendPacket([T |-> "Connect", packet |-> BuilderRequests[i]]) =>
                  /\ op'.header \o op'.body = ConnectLayout(BuilderRequests[i])
                  /\ i = 1 => op'.header \o op'.body = MiniqttConnect
                  /\ BuilderRequests[2].clean_start /\ BuilderRequests[2].keep_alive = 0
                  /\ BuilderRequests[3].clean_start = FALSE
        /\ SendReturns =>
              writer' = SubSeq(writer, 1, op.wstart) \o op.header \o op.body
      ]_vars

\* the request of the tests has been written, whole
C11_Witness ==
    /\ result.op = "send_packet" /\ result.k = "ok"
    /\ writer = MiniqttConnect


(***************************************************************************)
(* C12: exact size.  For every packet handed to Connection::send (CONNECT  *)
(* with any will, ConnectProperty and WillProperty variant, PUBLISH,       *)
(* SUBSCRIBE, DISCONNECT), size() is the number of bytes write_to emits,   *)
(* and when the send returns, the remaining length in the fixed header it  *)
(* wrote is the number of body bytes that follow it on the wire.           *)
(***************************************************************************)
C12_ExactSize ==
    [][ /\ \A i \in DOMAIN WirePackets :
              SendPacket(WirePackets[i]) =>
                  PacketSize(WirePackets[i]) = Len(PacketBytes(WirePackets[i]))
        /\ SendReturns =>
              LET w == SubSeq(writer', op.wstart + 1, Len(writer'))
                  h == FixedHeaderParse(w)
              IN  /\ h.k = "ok"
                  /\ VbiAsU32(h.v.length) = Len(w) - h.n
      ]_vars


\* the bytes w are complete packets one after the other, followed by exactly
\* the bytes `pending`
RECURSIVE Framed(_, _)
Framed(w, pending) ==
    IF w = pending THEN TRUE
    ELSE LET h == FixedHeaderParse(w)
         IN  /\ h.k = "ok"
             /\ h.n + VbiAsU32(h.v.length) <= Len(w)
             /\ Framed(SubSeq(w, h.n + VbiAsU32(h.v.length) + 1, Len(w)), pending)

\* what the running operation has written of a packet it has not finished
PendingHeader == IF pc = "send_body" THEN op.header ELSE <<>>

\* the running operation has written its request and awaits the response
AwaitsResponse == pc \in {"entry", "loop", "read"} /\ op.name \in {"connect", "subscribe"}

\* while a CONNECT or SUBSCRIBE awaits its response nothing is written, and
\* the wait ends only with the operation returning
NothingWhileAwaiting ==
    (cancelled' = {} /\ AwaitsResponse) =>
        /\ writer' = writer
        /\ \/ pc' \in {"entry", "loop", "read", "panicked"} /\ op' = op
           \/ pc' \in {"entry", "loop", "read"} /\ op'.name = op.name
           \/ pc' = "idle" /\ result'.op = op.name /\ result'.k \in {"ok", "err"}

ReturnedBytes == SubSeq(rx_buffer', 1, position')

\* the packet identifier of a SUBACK: the two bytes after its fixed header
SubAckIdentifier(ack) ==
    LET h == FixedHeaderParse(ack)
    IN  IF h.k = "ok" /\ Len(ack) >= h.n + 2 THEN SubSeq(ack, h.n + 1, h.n + 2) ELSE <<>>

(***************************************************************************)
(* C14: request/response correlation for SUBSCRIBE.  Whenever subscribe    *)
(* returns Ok, the SUBACK it received carries the packet identifier that   *)
(* this subscribe allocated and wrote at the start of its SUBSCRIBE.       *)
(***************************************************************************)
C14_SubAckCorrelation ==
    [][ (op.name = "subscribe" /\ result'.op = "subscribe" /\ result'.k = "ok") =>
            SubAckIdentifier(ReturnedBytes) = SubSeq(op.body, 1, 2)
      ]_vars


\* the step in which a subscribe takes its identifier: the identifier it
\* takes, and the one in the SUBSCRIBE it encodes
Allocates == \E topic \in Topics : SubscribeRefused(topic)

Allocated == calc'.n

(***************************************************************************)
(* C15 as claimed: the identifier counter is monotonically increasing.  It *)
(* starts at 20000; each subscribe takes the current value as the packet   *)
(* identifier of its SUBSCRIBE and increments the counter by one; so every *)
(* identifier is greater than every earlier one, and the counter never     *)
(* decreases.                                                              *)
(***************************************************************************)
C15_IdentifierMonotone ==
    /\ [](ops = 0 /\ result = NoResult => identifier = 20000)
    /\ [][Allocates =>
            /\ Allocated = identifier
            /\ SubSeq(calc'.data, 1, 2) = U16Bytes(identifier)
            /\ identifier' = identifier + 1
            /\ calc.data # <<>> => Allocated > calc.n
         ]_vars

(***************************************************************************)
(* C15, amended: the counter is a u16 that wraps.  It starts at 20000;     *)
(* each subscribe takes the current value as the packet identifier of its  *)
(* SUBSCRIBE and increments the counter by one modulo 65536; an identifier *)
(* is greater than the one before it except the one after 65535, which is  *)
(* 0.                                                                      *)
(***************************************************************************)
C15_IdentifierWraps ==
    /\ [](ops = 0 /\ result = NoResult => identifier = 20000)
    /\ [][Allocates =>
            /\ Allocated = identifier
            /\ SubSeq(calc'.data, 1, 2) = U16Bytes(identifier)
            /\ identifier' = (identifier + 1) % 65536
            /\ calc.data # <<>> =>
                  IF calc.n = 65535 THEN Allocated = 0 ELSE Allocated = calc.n + 1
         ]_vars

\* the subscribe after the one that took 65535 has taken 0
C15_Witness ==
    /\ result.op = "subscribe"
    /\ calc.n = 0 /\ SubSeq(calc.data, 1, 2) = <<0, 0>>
    /\ identifier = 1


\* the PUBLISH of send(topic, payload): 0x30 (QoS 0, dup and retain clear),
\* the remaining length, the topic, no identifier, the empty property list,
\* the payload
PublishLayout(topic, payload) ==
    LET remaining == LengthPrefixed(topic) \o <<0>> \o payload
    IN  <<48>> \o VbiAsSlice(VbiEncode(Len(remaining))) \o remaining

(***************************************************************************)
(* C16: send(topic, payload) writes exactly one QoS 0 PUBLISH (dup and     *)
(* retain clear, no packet identifier, empty property list, the payload)   *)
(* and returns Ok with the write of the body; from its call to its return  *)
(* it reads nothing from the transport and leaves the receive buffer, its  *)
(* filled and consumed counts and the identifier counter as they were.     *)
(***************************************************************************)
C16_SendPublish ==
    [][ /\ \A topic \in Topics : \A payload \in Payloads :
              Send(topic, payload) =>
                  op'.header \o op'.body = PublishLayout(topic, payload)
        /\ (op.name = "send" \/ op'.name = "send") =>
              /\ reader' = reader
              /\ conn' = conn
              /\ identifier' = identifier
              /\ pc' \in {"send_header", "send_body", "idle"}
              /\ writer' # writer =>
                    \/ pc = "send_header" /\ writer' = writer \o op.header
                    \/ pc = "send_body" /\ writer' = writer \o op.body
        /\ (op.name = "send" /\ SendReturns) =>
              /\ result' = [op |-> "send", k |-> "ok", v |-> "unit", eof |-> FALSE]
              /\ writer' = SubSeq(writer, 1, op.wstart) \o op.header \o op.body
      ]_vars

\* send has returned Ok on a client whose buffer holds received bytes, part
\* of them consumed, and the PUBLISH is the last thing on the wire
C16_Witness ==
    /\ result.op = "send" /\ result.k = "ok"
    /\ size > 0 /\ position # None /\ position > 0
    /\ \E topic \in Topics : \E payload \in Payloads :
          LET p == PublishLayout(topic, payload)
          IN  /\ Len(writer) >= Len(p)
              /\ SubSeq(writer, Len(writer) - Len(p) + 1, Len(writer)) = p

\* where the first complete DISCONNECT packet in w ends, counted from
\* `offset`; None if there is none
RECURSIVE FirstDisconnectEnd(_, _)
FirstDisconnectEnd(w, offset) ==
    LET h == FixedHeaderParse(w)
    IN  IF h.k # "ok" THEN None
        ELSE LET end == h.n + VbiAsU32(h.v.length)
             IN  IF end > Len(w) THEN None
                 ELSE IF FixedHeaderTy(h.v) = DisconnectTYPE THEN offset + end
                 ELSE FirstDisconnectEnd(SubSeq(w, end + 1, Len(w)), offset + end)

\* disconnect has returned Ok in this run: its DISCONNECT is on the wire,
\* whole (read off the wire, which is well framed when nothing was cancelled
\* and no write failed)
Disconnected ==
    cancelled = {} /\ ~torn /\ FirstDisconnectEnd(writer, 0) # None

(***************************************************************************)
(* C17: disconnect() sends a DISCONNECT, bytes e0 01 04, and drops the     *)
(* connection: once disconnect has returned, nothing more is written to    *)
(* the transport and nothing more is read from it through this client.     *)
(***************************************************************************)
C17_DisconnectDrops ==
    /\ [](Disconnected =>
            LET end == FirstDisconnectEnd(writer, 0)
            IN  /\ SubSeq(writer, end - 2, end) = <<224, 1, 4>>
                /\ Len(writer) = end)
    /\ [][Disconnected => reader' = reader]_vars

(***************************************************************************)
(* C18: transport errors are propagated and never retried.  When the       *)
(* transport's write fails during a send or its read fails during a        *)
(* receive, the operation ends in that step with the Connection error: it  *)
(* writes and reads nothing more, and the receive buffer, its filled count *)
(* and its consumed count are those from before the failed call.  An       *)
(* operation goes on after a write only if the bytes were written, and     *)
(* after a read only if bytes were read.                                   *)
(***************************************************************************)
C18_TransportErrors ==
    [][ /\ (pc \in {"send_header", "send_body", "read"}
            /\ result'.k = "err" /\ result'.v = "Connection") =>
              /\ result'.op = op.name
              /\ pc' = "idle" /\ op' = NoOp
              /\ writer' = writer /\ reader' = reader
              /\ conn' = conn
        /\ (pc \in {"send_header", "send_body"} /\ pc' # "idle" /\ pc' # pc) =>
              Len(writer') > Len(writer)
        /\ (pc = "read" /\ pc' # "idle") =>
              /\ Len(reader') < Len(reader)
              /\ size' = size + (Len(reader) - Len(reader'))
      ]_vars

\* a receive that had read part of a packet has ended with the transport's
\* error, the bytes it had read still in the buffer
C18_Witness ==
    /\ result.op = "receive" /\ result.k = "err" /\ result.v = "Connection"
    /\ size > 0 /\ Len(reader) > 0


\* the length of the encoded form of n
VbiLength(n) ==
    IF n < 128 THEN 1 ELSE IF n < 16384 THEN 2 ELSE IF n < 2097152 THEN 3 ELSE 4

(***************************************************************************)
(* C19: VariableByteInteger round trip.  Encoding succeeds exactly for n   *)
(* in 0..=0x0FFFFFFF and is rejected with the overflow error above that;   *)
(* for every n it succeeds for, parsing the encoded form gives n back and  *)
(* consumes exactly the length of the encoded form, which is 1 for n <     *)
(* 128, 2 for n < 16384, 3 for n < 2097152 and 4 otherwise;                *)
(* encode(200000000) is 80 84 af 5f.                                       *)
(***************************************************************************)
C19_VbiRoundTrip ==
    /\ Len(calc.encoded) = 1 =>
          LET e == calc.encoded[1]
          IN  /\ (e = "overflow") <=> (calc.n > 268435455)
              /\ ~(e = "overflow") =>
                    /\ Len(VbiAsSlice(e)) = VbiLength(calc.n)
                    /\ VbiSize(e) = VbiLength(calc.n)
                    /\ calc.n = 200000000 => VbiAsSlice(e) = <<128, 132, 175, 95>>
    /\ Len(calc.decoded) = 1 =>
          LET d == calc.decoded[1]
          IN  /\ d.k = "ok"
              /\ VbiAsU32(d.v) = calc.n
              /\ d.n = Len(VbiAsSlice(calc.encoded[1]))
              /\ d.v = calc.encoded[1]

\* 200000000 has been encoded and parsed back
C19_Witness ==
    /\ calc.n = 200000000
    /\ Len(calc.decoded) = 1
    /\ calc.decoded[1].n = 4

\* the place of the first byte among the first four of d whose continuation
\* bit is clear; 0 if there is none
RECURSIVE FirstEnd(_, _)
FirstEnd(d, i) ==
    IF i > 4 \/ i > Len(d) THEN 0
    ELSE IF d[i] < 128 THEN i ELSE FirstEnd(d, i + 1)

\* the value of the first k bytes of d, seven bits each, least significant first
RECURSIVE VbiValue(_, _)
VbiValue(d, k) ==
    IF k = 0 THEN 0 ELSE (d[1] % 128) + 128 * VbiValue(Tail(d), k - 1)

(***************************************************************************)
(* C20: VariableByteInteger decode reads at most four bytes and stops at   *)
(* the first byte whose continuation bit is clear.  It returns             *)
(* NotEnoughData when the input ends before such a byte and has fewer than *)
(* four bytes ([0x80]); an error when the fourth byte still has the bit    *)
(* set ([0xff, 0xff, 0xff, 0xff]); otherwise the value and the number of   *)
(* bytes read, whatever follows them ([0x7f] gives (1, 127), [0x80, 0x01]  *)
(* and [0x80, 0x01, 0xff] give (2, 128)).                                  *)
(***************************************************************************)
C20_VbiDecode ==
    Len(calc.parsed) = 1 =>
        LET r == calc.parsed[1]
            d == calc.data
            k == FirstEnd(d, 1)
        IN  /\ k = 0 /\ Len(d) < 4 => r.k = "ned"
            /\ k = 0 /\ Len(d) >= 4 => r.k = "err"
            /\ k > 0 =>
                  /\ r.k = "ok" /\ r.n = k /\ k <= 4
                  /\ VbiAsU32(r.v) = VbiValue(d, k)
                  /\ r = VbiParse(SubSeq(d, 1, k))
            /\ d = <<127>> => r.k = "ok" /\ r.n = 1 /\ VbiAsU32(r.v) = 127
            /\ d = <<128>> => r = NotEnoughData
            /\ d = <<255, 255, 255, 255>> => r.k = "err"
            /\ d \in {<<128, 1>>, <<128, 1, 255>>} =>
                  r.k = "ok" /\ r.n = 2 /\ VbiAsU32(r.v) = 128

\* [0x80, 0x01, 0xff] has been parsed: two bytes read, one left
C20_Witness ==
    /\ calc.data = <<128, 1, 255>>
    /\ Len(calc.parsed) = 1
    /\ calc.parsed[1].k = "ok"

\* the connect reason codes the specification documents
ReasonCodes == {0} \cup (128..138) \cup {140, 144, 149, 151} \cup (153..157) \cup {159}

(***************************************************************************)
(* C21: for every byte b, parsing b as a ConnAckReason fails with the      *)
(* protocol error or yields a reason whose numeric value is b; it succeeds *)
(* exactly for the 22 documented codes; connect returns Ok only with a     *)
(* reason whose value is the byte the CONNACK carries, and once a CONNACK  *)
(* with any other reason byte is in the buffer connect fails with          *)
(* Protocol.                                                               *)
(***************************************************************************)
C21_ConnAckReason ==
    /\ [](/\ Cardinality(ReasonCodes) = 22
          /\ Len(calc.parsed) = 1 =>
                LET r == calc.parsed[1]
                IN  /\ (r.k = "ok") <=> (calc.n \in ReasonCodes)
                    /\ r.k = "ok" => r.n = 1
                    /\ r.k # "ok" => r = Error(ProtocolError)
          /\ Len(calc.decoded) = 1 => calc.decoded[1] = calc.n
          /\ (result.op = "connect" /\ result.k = "ok") =>
                /\ calc.n \in ReasonCodes
                /\ ConnAckReasonAsU8(result.v.ack.reason) = calc.n)
    /\ [][ (/\ op.name = "connect" /\ pc = "loop"
            /\ calc.n \notin ReasonCodes
            /\ IsPrefix(stream, Data)) =>
                result' = [op |-> "connect", k |-> "err", v |-> "Protocol", eof |-> FALSE]
      ]_vars

\* the byte 0x8b, between two documented codes, was rejected on its own, and
\* the connect that received the whole CONNACK carrying it failed with Protocol
C21_Witness ==
    /\ calc.n = 139
    /\ Len(calc.parsed) = 1 /\ calc.parsed[1].k = "err"
    /\ result.op = "connect" /\ result.k = "err" /\ result.v = "Protocol"
    /\ Data = stream

\* the QoS bits of a fixed header's first byte
QoSBits(start) == (start \div 2) % 4

(***************************************************************************)
(* C22: for every value v in 0..255 the conversion to QoS succeeds iff     *)
(* v <= 2, converting the result back gives v, and a failed conversion     *)
(* reports v; a receive that finds in its buffer the complete fixed header *)
(* of a PUBLISH whose QoS bits are 0b11 returns the Protocol error in that *)
(* step, however few of the packet's later bytes have arrived.             *)
(***************************************************************************)
C22_QoS ==
    /\ [](/\ Len(calc.parsed) = 1 =>
                LET r == calc.parsed[1]
                IN  /\ (r.k = "ok") <=> (calc.n <= 2)
                    /\ r.k # "ok" => r = [k |-> "err", v |-> calc.n]
          /\ Len(calc.decoded) = 1 => calc.decoded[1] = calc.n)
    /\ [][ (/\ op.name = "receive" /\ pc = "loop"
            /\ FixedHeaderParse(Data).k = "ok"
            /\ FixedHeaderTy(FixedHeaderParse(Data).v) = PublishTYPE
            /\ QoSBits(Data[1]) = 3) =>
                result' = [op |-> "receive", k |-> "err", v |-> "Protocol", eof |-> FALSE]
      ]_vars

\* 0x3f was refused as a QoS, and a receive returned Protocol on the PUBLISH
\* with flags 0b1111 when only its two fixed-header bytes had arrived
C22_Witness ==
    /\ calc.n = 63
    /\ Len(calc.parsed) = 1 /\ calc.parsed[1].k = "err"
    /\ result.op = "receive" /\ result.k = "err" /\ result.v = "Protocol"
    /\ Data = <<63, 7>>

\* the QoS level the two QoS bits name
QoSLevel(bits) ==
    CASE bits = 0 -> "AtMostOnce" [] bits = 1 -> "AtLeastOnce" [] bits = 2 -> "ExactlyOnce"

\* whether bit i of the flags nibble is set
FlagSet(flags, i) == (flags \div (2 ^ i)) % 2 = 1

\* the Publish a PUBLISH made of these parts stands for
PublishOf(parts) ==
    [ty |-> "Publish",
     dup |-> FlagSet(parts.flags, 3),
     qos |-> QoSLevel(QoSBits(parts.flags)),
     retain |-> FlagSet(parts.flags, 0),
     identifier |-> IF QoSBits(parts.flags) > 0 THEN parts.identifier ELSE None,
     topic |-> parts.topic,
     payload |-> parts.payload]

\* the length of the PUBLISH made of these parts: its fixed header and as
\* many bytes as the remaining length says
PublishWireLength(parts) ==
    LET remaining == Len(PublishWireBody(parts))
    IN  1 + VbiLength(remaining) + remaining

\* every PUBLISH made of parts decodes to the Publish the parts stand for and
\* consumes the fixed header and the remaining length, whatever follows it
DecodesParts ==
    \A parts \in PublishParts :
        (calc.data = PublishWire(parts) /\ QoSBits(parts.flags) # 3) =>
            calc.parsed[1] = Ok(PublishWireLength(parts), PublishOf(parts))

\* what the specification's scenario is said to decode to
ScenarioDecoded ==
    [ty |-> "Publish", dup |-> FALSE, qos |-> "AtMostOnce", retain |-> FALSE,
     identifier |-> None, topic |-> Topic, payload |-> Hello]

(***************************************************************************)
(* C23 as claimed: PUBLISH decode.  dup is bit 3 of the flags, qos bits    *)
(* 2..1, retain bit 0; the body is the topic, the packet identifier iff    *)
(* qos > 0, the property block, and a payload that runs to the end of the  *)
(* remaining length; the parse consumes the fixed header plus the          *)
(* remaining length.  30 0e 00 05 "topic" 00 "hello" decodes to topic      *)
(* "topic", payload "hello", QoS 0, no dup, no retain, no identifier.      *)
(***************************************************************************)
C23_PublishDecode ==
    Len(calc.parsed) = 1 =>
        /\ DecodesParts
        /\ calc.data = ScenarioPublish => calc.parsed[1] = Ok(15, ScenarioDecoded)

(***************************************************************************)
(* C23, amended: the same with the scenario's remaining length counted     *)
(* right: 30 0d 00 05 "topic" 00 "hello" decodes as stated and consumes    *)
(* its 15 bytes.  With 0e the packet is one byte longer than the 15 given: *)
(* the parse asks for more data, and with one more byte that byte is part  *)
(* of the payload.                                                         *)
(***************************************************************************)
C23_PublishDecodeCounted ==
    Len(calc.parsed) = 1 =>
        /\ DecodesParts
        /\ calc.data = ScenarioPublishCounted => calc.parsed[1] = Ok(15, ScenarioDecoded)
        /\ calc.data = ScenarioPublish => calc.parsed[1] = NotEnoughData
        /\ calc.data = ScenarioPublish \o <<48>> =>
              calc.parsed[1] = Ok(16, [ScenarioDecoded EXCEPT !.payload = Hello \o <<48>>])

\* a PUBLISH with dup, QoS 2 and retain, an identifier, two bytes of
\* properties and a 130 byte payload, followed by the start of another
\* packet, has been parsed
C23_Witness ==
    /\ Len(calc.parsed) = 1 /\ calc.parsed[1].k = "ok"
    /\ calc.data = PublishWire([flags |-> 13, topic |-> Topic, identifier |-> 258,
                                properties |-> <<1, 1>>, payload |-> LongPayload,
                                tail |-> <<48>>])
    /\ calc.parsed[1].n = Len(calc.data) - 1
    /\ calc.parsed[1].v.identifier = 258

\* a Publish is well-formed when it has a packet identifier iff its QoS is
\* above 0
WellFormedPublish(packet) ==
    (packet.identifier # None) <=> (packet.qos # "AtMostOnce")

(***************************************************************************)
(* C24: PUBLISH round trip.  For every well-formed Publish value p, the    *)
(* parse of the bytes Connection::send writes for p yields a Publish equal *)
(* to p in dup, qos, retain, identifier, topic and payload, and consumes   *)
(* exactly the bytes written.                                              *)
(***************************************************************************)
C24_PublishRoundTrip ==
    (Len(calc.decoded) = 1 /\ WellFormedPublish(calc.packet[1])) =>
        LET p == calc.packet[1]
        IN  calc.decoded[1] =
                Ok(Len(calc.encoded[1]),
                   [ty |-> "Publish", dup |-> p.dup, qos |-> p.qos, retain |-> p.retain,
                    identifier |-> p.identifier, topic |-> p.topic,
                    payload |-> p.payload])

\* a Publish with dup, QoS 2, the largest identifier, a topic and a payload
\* of 130 bytes was written with a two-byte remaining length and parsed back
C24_Witness ==
    /\ Len(calc.decoded) = 1 /\ calc.decoded[1].k = "ok"
    /\ calc.packet[1] = [dup |-> TRUE, qos |-> "ExactlyOnce", retain |-> FALSE,
                         identifier |-> 65535, topic |-> Topic, payload |-> LongPayload]
    /\ SubSeq(calc.encoded[1], 1, 3) = <<60, 140, 1>>

(***************************************************************************)
(* C25: receive buffer invariant.  In every reachable state, after any     *)
(* sequence of receives (successful, failed or cancelled), sends and       *)
(* buffer growths: filled <= capacity, and consumed, when set, is <=       *)
(* filled; consumed is set only by a successful parse, and the first step  *)
(* of every receive clears it.                                             *)
(***************************************************************************)
C25_BufferInvariant ==
    /\ [](/\ size <= Len(rx_buffer)
          /\ position # None => (0 <= position /\ position <= size))
    /\ [][ /\ (position' # position /\ position' # None) =>
                 /\ pc = "loop"
                 /\ result'.k = "ok"
                 /\ Parse(op.T, Data).k = "ok"
           /\ pc = "entry" => position' = None
           /\ pc \in {"loop", "read"} => position = None
      ]_vars

\* a receive was dropped after it had read; the next operation got its
\* packet from a Vec<u8> that had grown, with bytes of the following packet
\* behind it
C25_Witness ==
    /\ growable /\ Len(rx_buffer) > 0
    /\ cancelled # {} /\ \E c \in cancelled : c[2]
    /\ result.k = "ok"
    /\ position # None /\ 0 < position /\ position < size

\* the bytes the packet returned last lies in
Borrowed == SubSeq(rx_buffer, 1, position)

(***************************************************************************)
(* C26: zero-copy validity.  Compaction is done on entry to receive, not   *)
(* on exit: the step in which a receive returns a packet leaves the buffer *)
(* as the parser saw it, the packet being the parse of the bytes           *)
(* [0..consumed); and from then until the next receive begins nothing      *)
(* (the exit path, send, disconnect, a failed or dropped write) modifies   *)
(* the buffer, filled or consumed.                                         *)
(***************************************************************************)
C26_ZeroCopy ==
    [][ /\ (pc = "loop" /\ result'.k = "ok") =>
              /\ rx_buffer' = rx_buffer /\ size' = size
              /\ position' # None
              /\ Parse(op.T, SubSeq(rx_buffer', 1, position')) =
                    Ok(position', returned'[Len(returned')].packet)
        /\ (position # None /\ pc # "entry") => conn' = conn
        /\ rx_buffer' # rx_buffer => pc \in {"entry", "loop", "read"}
      ]_vars

\* a receive returned the first PUBLISH with the second behind it in the
\* buffer; a send has since run to its end and the bytes are still in place
C26_Witness ==
    /\ result.op = "send" /\ result.k = "ok"
    /\ position # None /\ position < size
    /\ Borrowed = PubA
    /\ returned # <<>> /\ returned[Len(returned)].n = position

\* the terminal error a receive::<T> that starts on a buffer of this
\* capacity with these bytes filled and this consumed count must end with:
\* Protocol when the bytes fail to parse, InsufficientBufferSize when a
\* buffer that cannot grow is full of an incomplete packet; "none" otherwise
TerminalErrorOf(T, capacity, data, consumed) ==
    IF consumed # None \/ T = "none" THEN "none"
    ELSE LET r == Parse(T, data)
         IN  IF r.k = "err" THEN "Protocol"
             ELSE IF r.k = "ned" /\ ~growable /\ Len(data) = capacity
             THEN "InsufficientBufferSize"
             ELSE "none"

\* in the state as it is
TerminalError(T) == TerminalErrorOf(T, Len(rx_buffer), Data, position)

\* in the state a step leads to
TerminalErrorAfter(T) ==
    TerminalErrorOf(T, Len(rx_buffer'), SubSeq(rx_buffer', 1, size'), position')

(***************************************************************************)
(* C27: terminal receive errors leave the buffer untouched and are sticky. *)
(* When receive::<T> returns Protocol, or InsufficientBufferSize on a      *)
(* buffer that cannot grow, buffer and filled are those of the failing     *)
(* parse attempt, consumed stays unset and nothing was read in that step;  *)
(* in the state this leaves, a receive::<T> passes its entry without       *)
(* changing the buffer and returns the same error from its first parse     *)
(* attempt, without a transport read.                                      *)
(***************************************************************************)
C27_TerminalErrorsSticky ==
    [][ /\ (pc = "loop" /\ result'.k = "err"
              /\ result'.v \in {"Protocol", "InsufficientBufferSize"}) =>
              /\ conn' = conn /\ position' = None /\ reader' = reader
              /\ ~growable \/ result'.v = "Protocol"
              /\ TerminalError(op.T) = result'.v
              /\ TerminalErrorAfter(op.T) = result'.v
        /\ (pc = "entry" /\ TerminalError(op.T) # "none") =>
              /\ pc' = "loop" /\ conn' = conn /\ reader' = reader
              /\ TerminalErrorAfter(op.T) = TerminalError(op.T)
        /\ (pc = "loop" /\ TerminalError(op.T) # "none") =>
              /\ result' = [op |-> op.name, k |-> "err", v |-> TerminalError(op.T),
                            eof |-> FALSE]
              /\ pc' = "idle"
      ]_vars

\* a first receive filled the 8-byte buffer with the start of a 20-byte
\* PUBLISH and returned InsufficientBufferSize; the receive repeated after
\* it is at its first parse attempt, has read nothing and faces the same error
C27_Witness ==
    /\ ops = 2 /\ op.name = "receive" /\ pc = "loop" /\ op.reads = 0
    /\ writer = <<>> /\ cancelled = {}
    /\ ~growable /\ size = Len(rx_buffer) /\ size > 0
    /\ Data = SubSeq(PubLong, 1, size)
    /\ TerminalError(op.T) = "InsufficientBufferSize"

\* the length the fixed header at the start of these bytes gives its packet:
\* the header's own length plus its remaining-length value
FramedLength(bytes) ==
    LET h == FixedHeaderParse(bytes)
    IN  h.n + VbiAsU32(h.v.length)

(***************************************************************************)
(* C28: framing stays in sync.  Whenever a parser (CONNACK, SUBACK,        *)
(* PUBLISH) accepts the buffered bytes, the consumed length it reports,    *)
(* which receive records as the start of the next packet, is the length of *)
(* the fixed header plus the remaining length that header carries.         *)
(***************************************************************************)
C28_FramingInSync ==
    [][ (pc = "loop" /\ result'.k = "ok") =>
            /\ Parse(op.T, Data).k = "ok"
            /\ Parse(op.T, Data).n = FramedLength(Data)
            /\ position' = FramedLength(Data)
      ]_vars

\* PUBLISH packets whose remaining length is smaller than what topic, packet
\* identifier and property block occupy: 2 < 3 + 1, 3 < 3 + 2 + 1, 4 < 3 + 3
PublishOverruns == {PubUnderflow, PubUnderflowIdentifier, PubUnderflowProperties}

\* the results a total parser has
PublishResults(r) == r.k \in {"ok", "ned", "err"}

(***************************************************************************)
(* C29: PUBLISH parsing is total.  Every input gives a packet,             *)
(* NotEnoughData or a protocol error; the payload length is never computed *)
(* by a panicking or wrapping subtraction, and a PUBLISH whose remaining   *)
(* length is smaller than its topic, packet identifier and property block  *)
(* is rejected with a protocol error.                                      *)
(***************************************************************************)
C29_PublishTotal ==
    /\ Len(calc.decoded) = 1 => PublishResults(calc.decoded[1])
    /\ Len(calc.parsed) = 1 =>
          /\ PublishResults(calc.parsed[1])
          /\ PublishParse(calc.data).k # "overflow"
          /\ calc.data \in PublishOverruns => calc.parsed[1] = Error(ProtocolError)

\* a complete PUBLISH is the next packet in the receive buffer
PublishAhead == \E p \in {PubA, PubB} : IsPrefix(p, Data)

\* the identifier the counter gave out last
LastIdentifier == (identifier + 65535) % 65536

\* the last bytes written to the transport, as many as a SUBSCRIBE body has
LastBody(body) == SubSeq(writer, Len(writer) - Len(body) + 1, Len(writer))

(***************************************************************************)
(* C30: interleaved server traffic during subscribe.  If the next complete *)
(* packet the server delivers after the client's SUBSCRIBE is a PUBLISH    *)
(* and not the SUBACK, subscribe returns the Protocol error, the PUBLISH   *)
(* bytes stay unconsumed at the start of the receive buffer, and the       *)
(* identifier allocated for that SUBSCRIBE is not used again by the next   *)
(* subscribe.                                                              *)
(***************************************************************************)
C30_PublishDuringSubscribe ==
    [][ /\ (pc = "loop" /\ op.name = "subscribe" /\ PublishAhead) =>
              /\ result' = [op |-> "subscribe", k |-> "err", v |-> "Protocol",
                            eof |-> FALSE]
              /\ pc' = "idle"
              /\ rx_buffer' = rx_buffer /\ size' = size /\ position' = None
              /\ reader' = reader /\ returned' = returned
              /\ \E t \in Topics : op.body = SubscribeBytes(LastIdentifier, t)
              /\ identifier' = identifier
        /\ (/\ pc = "idle" /\ result.op = "subscribe" /\ result.v = "Protocol"
            /\ pc' = "send_header" /\ op'.name = "subscribe") =>
              \E t \in Topics :
                 /\ LastBody(op'.body) = SubscribeBytes(LastIdentifier, t)
                 /\ op'.body = SubscribeBytes(identifier, t)
                 /\ op'.body # LastBody(op'.body)
                 /\ identifier' = (identifier + 1) % 65536
      ]_vars

\* two subscribes have each met the server's first PUBLISH and returned
\* Protocol; their SUBSCRIBEs carry 20000 and 20001, and the PUBLISH is still
\* the first packet of the buffer
C30_Witness ==
    /\ stream = PubA \o PubB
    /\ ops = 2 /\ pc = "idle"
    /\ result = [op |-> "subscribe", k |-> "err", v |-> "Protocol", eof |-> FALSE]
    /\ IsPrefix(PubA, Data) /\ position = None
    /\ returned = <<>>
    /\ Len(writer) = 18
    /\ SubSeq(writer, 3, 4) = <<78, 32>>
    /\ SubSeq(writer, 12, 13) = <<78, 33>>
    /\ identifier = 20002

\* the bytes read from the transport so far
ReadSoFar == SubSeq(stream, 1, Len(stream) - Len(reader))

\* the bytes of the buffer no returned packet has consumed
Unconsumed == SubSeq(rx_buffer, (IF position = None THEN 0 ELSE position) + 1, size)

(***************************************************************************)
(* C31: byte-stream integrity.  Across receive calls that returned, failed *)
(* or were cancelled, any chunking of the reads and any buffer growth: the *)
(* bytes consumed by the packets returned so far, followed by the bytes    *)
(* unconsumed in the buffer, are the bytes read from the transport so far, *)
(* in order; each returned packet is what its own bytes parse to.          *)
(***************************************************************************)
C31_StreamIntegrity ==
    /\ SubSeq(stream, 1, Consumed) \o Unconsumed = ReadSoFar
    /\ Consumed + Len(Unconsumed) + Len(reader) = Len(stream)
    /\ \A i \in DOMAIN returned :
          LET start == SumN(SubSeq(returned, 1, i - 1))
              r == Parse(returned[i].T, SubSeq(stream, start + 1, start + returned[i].n))
          IN  r.k = "ok" /\ r.n = returned[i].n /\ r.v = returned[i].packet

\* a Vec buffer has grown, a receive was dropped after a read of its own, the
\* next receive returned the first PUBLISH, and bytes of the second one are
\* in the buffer behind it
C31_Witness ==
    /\ stream = PubA \o PubB
    /\ growable /\ Len(rx_buffer) = 32
    /\ <<"receive", TRUE>> \in cancelled
    /\ Len(returned) = 1
    /\ position = Len(PubA) /\ size > position

(***************************************************************************)
(* C32: prefix stability of parsing.  If parsing d as type T succeeds with *)
(* (n, p), parsing d followed by any further bytes succeeds with the same  *)
(* (n, p): the packet does not depend on the bytes of following packets    *)
(* already behind it, and n leaves all of them unconsumed.                 *)
(***************************************************************************)
C32_PrefixStable ==
    (Len(calc.parsed) = 1 /\ Len(calc.extended) = 1 /\ calc.parsed[1].k = "ok") =>
        /\ calc.extended[1] = calc.parsed[1]
        /\ calc.parsed[1].n <= Len(calc.data)
        /\ Rem(calc.data \o calc.more, calc.extended[1].n)
              = Rem(calc.data, calc.parsed[1].n) \o calc.more

\* a PUBLISH was parsed on its own and with a CONNACK behind it
C32_Witness ==
    /\ calc.T = "Publish" /\ calc.data = PubB /\ calc.more = ConnAckOk
    /\ Len(calc.parsed) = 1 /\ Len(calc.extended) = 1
    /\ calc.extended[1].k = "ok" /\ calc.extended[1].n = Len(PubB)

(***************************************************************************)
(* C33: the transport read is never called with an empty destination.      *)
(* Whenever receive is in its read, the free region [size..capacity) has   *)
(* at least one byte; a full buffer with an incomplete packet is first     *)
(* grown, or the call fails with InsufficientBufferSize; so a read that    *)
(* returns 0 happens only when the peer has closed.                        *)
(***************************************************************************)
C33_ReadHasRoom ==
    /\ [](pc = "read" => size < Len(rx_buffer) /\ ~op.full)
    /\ [][ /\ (pc = "loop" /\ size = Len(rx_buffer)
                 /\ Parse(op.T, Data).k \in {"ned", "overflow"}) =>
                 \/ Len(rx_buffer') > Len(rx_buffer) /\ pc' = "loop" /\ growable
                 \/ result'.v = "InsufficientBufferSize" /\ pc' = "idle" /\ ~growable
                 \/ pc' = "panicked"
           /\ (pc = "read" /\ result'.eof) =>
                 reader = <<>> /\ result'.v = "Disconnected"
         ]_vars

\* a Vec buffer was grown from 0 to 32 bytes before the first read, and a
\* later read returned 0 because the peer had closed
C33_Witness ==
    /\ growable /\ Len(rx_buffer) = 32
    /\ result.eof /\ result.v = "Disconnected"
    /\ reader = <<>> /\ size < Len(rx_buffer)
    /\ Len(returned) = 1

\* 2 * len clamped into [32, 8192]
GrowBy(len) ==
    IF 2 * len < 32 THEN 32 ELSE IF 2 * len > 8192 THEN 8192 ELSE 2 * len

(***************************************************************************)
(* C34: growth policy.  try_resize on a Vec<u8> of length len succeeds and *)
(* makes its length len + clamp(2 * len, 32, 8192), which is greater than  *)
(* len, and the bytes [0..len) stay as they were; on a fixed-size array or *)
(* a slice it refuses (BufferNotResizable) and leaves the buffer           *)
(* unchanged.                                                              *)
(***************************************************************************)
C34_GrowthPolicy ==
    [][ result'.op = "try_resize" =>
          LET len == Len(rx_buffer)
          IN  IF calc.T = "Vec"
              THEN /\ result'.k = "ok"
                   /\ Len(rx_buffer') = len + GrowBy(len)
                   /\ Len(rx_buffer') > len
                   /\ SubSeq(rx_buffer', 1, len) = rx_buffer
                   /\ \A i \in len + 1..Len(rx_buffer') : rx_buffer'[i] = 0
              ELSE /\ result'.k = "err" /\ result'.v = "BufferNotResizable"
                   /\ rx_buffer' = rx_buffer
      ]_vars

\* an empty Vec has grown to 32 and then by 64, 192 and 576 bytes
C34_Witness ==
    /\ calc.T = "Vec" /\ calc.n = 4
    /\ Len(rx_buffer) = 864
    /\ result.k = "ok"

(***************************************************************************)
(* C35: with a growable buffer receive never returns                       *)
(* InsufficientBufferSize.  Every time the buffer is full and the packet   *)
(* still incomplete, the buffer is grown, its bytes kept, and the loop     *)
(* continues; a buffer that starts with length 0 is grown to 32 bytes      *)
(* before the first read.                                                  *)
(***************************************************************************)
C35_GrowableNeverInsufficient ==
    /\ [](growable => result.v # "InsufficientBufferSize")
    /\ [](growable /\ pc = "read" => Len(rx_buffer) > size)
    /\ [][ (growable /\ pc = "loop" /\ size = Len(rx_buffer)
              /\ Parse(op.T, Data).k \in {"ned", "overflow"}) =>
              \/ /\ pc' = "loop" /\ result' = NoResult
                 /\ Len(rx_buffer') > Len(rx_buffer)
                 /\ Len(rx_buffer) = 0 => Len(rx_buffer') = 32
                 /\ SubSeq(rx_buffer', 1, size) = Data
                 /\ size' = size /\ reader' = reader
              \/ pc' = "panicked"
         ]_vars

\* a Vec that started empty has grown twice, to 32 and to 96 bytes, and the
\* receive has returned the 39-byte PUBLISH
C35_Witness ==
    /\ stream = PubLarge
    /\ Len(rx_buffer) = 96
    /\ result.op = "receive" /\ result.k = "ok"
    /\ position = 39
    /\ Len(returned) = 1 /\ Len(returned[1].packet.payload) = 33

\* the bytes of the CONNECT for a packet: fixed header and body
ConnectWire(packet) ==
    FixedHeaderBytes(FixedHeaderNew(ConnectTYPE, 0, ConnectSize(packet)))
        \o ConnectBytes(packet)

(***************************************************************************)
(* C36: the connect builder is lazy and single-shot.  Creating it and      *)
(* calling keep_alive, resume_session, with_username, with_password or     *)
(* with_properties performs no transport I/O; the CONNECT is made from the *)
(* builder's fields as they are at the first poll; the closure that sends  *)
(* it is invoked exactly once; every later poll polls that same future.    *)
(***************************************************************************)
C36_LazySingleShot ==
    /\ [](calc.T # "Future" =>
            /\ writer = <<>> /\ reader = stream /\ size = 0
            /\ pc = "idle" /\ ops = 0 /\ calc.encoded = <<>>)
    /\ [](calc.T = "Future" =>
            /\ Len(calc.encoded) = 1
            /\ IsPrefix(writer, ConnectWire(calc.encoded[1])))
    /\ [][ /\ (calc.T = "Make" /\ calc'.T = "Future") =>
                 /\ calc'.encoded = <<calc.packet[1]>>
                 /\ op'.name = "connect"
                 /\ op'.header \o op'.body = ConnectWire(calc.packet[1])
           /\ calc.T = "Future" => calc' = calc
         ]_vars

\* two builder methods were called, the later keep_alive replacing the
\* earlier one; the connect was polled to completion and the CONNECT on the
\* wire carries the builder's last fields
C36_Witness ==
    /\ calc.T = "Future" /\ calc.n = 2
    /\ calc.encoded = <<with_username(keep_alive(ConnectNew(Miniqtt), 66), Aaa)>>
    /\ writer = ConnectWire(calc.encoded[1])
    /\ result.op = "connect" /\ result.k = "ok"

(***************************************************************************)
(* C37: for every VariableByteInteger a successful parse returns, size()   *)
(* is the number of bytes the parse reported as consumed and as_slice()    *)
(* is exactly those bytes of the input, also for inputs such as 80 00      *)
(* whose last byte is zero.                                                *)
(***************************************************************************)
C37_VbiSizeConsumed ==
    (Len(calc.parsed) = 1 /\ calc.parsed[1].k = "ok") =>
        /\ VbiSize(calc.parsed[1].v) = calc.parsed[1].n
        /\ VbiAsSlice(calc.parsed[1].v) = SubSeq(calc.data, 1, calc.parsed[1].n)

(***************************************************************************)
(* C38: the two-byte big-endian length prefix written for an EncodedStr or *)
(* a BinaryData equals the number of data bytes written right after it,    *)
(* for every input length, also above 65,535.                              *)
(***************************************************************************)
C38_LengthPrefix ==
    Len(calc.encoded) = 1 =>
        LET written == calc.encoded[1]
        IN  /\ Len(written) >= 2
            /\ written[1] * 256 + written[2] = Len(written) - 2
            /\ Rem(written, 2) = calc.data

(***************************************************************************)
(* C39: a cursor read that fails with NotEnoughData leaves the position    *)
(* unchanged, for read_u8, read_u16_be, read_slice(n) and read<T>; a       *)
(* successful read advances the position by exactly the number of bytes    *)
(* read; the position never exceeds the length of the slice.               *)
(***************************************************************************)
C39_CursorReads ==
    /\ [](calc.n <= Len(calc.data))
    /\ [][ calc'.more # calc.more =>
              /\ calc'.parsed[1].k = "ned" => calc'.n = calc.n
              /\ calc'.parsed[1].k = "ok" => calc'.n = calc.n + calc'.parsed[1].n
         ]_vars

====
